---- MODULE Spec2Model ----
(***************************************************************************)
(* Cross-Platform Intelligence Engine of agent-intelligence-hub.           *)
(*                                                                         *)
(* The module holds one state machine per engine component, each with its  *)
(* own specification over the shared variable list:                        *)
(*   SpecSched     start()/cron scheduling of NetworkAnalyzer and          *)
(*                 ThreatIntelligenceAnalyzer                              *)
(*   SpecThreat    one ThreatIntelligenceAnalyzer.analyze() run            *)
(*   SpecCommunity NetworkAnalyzer.detectCommunityStructures               *)
(*   SpecBuild     NetworkAnalyzer.buildInteractionNetwork, two runs       *)
(*   SpecProfiles  IdentityResolver.createUnifiedProfiles                  *)
(*   SpecResolve   IdentityResolver.resolveIdentities, two invocations     *)
(*   SpecRep       ReputationEngine.calculateReputation, two invocations   *)
(*   SpecStrings   IdentityResolver.stringSimilarity, levenshteinDistance  *)
(*   SpecIngest    the agents table and linkExactMatches over its rows     *)
(*   SpecSnapshot  NetworkAnalyzer.analyze, its snapshot and the analytics *)
(*                 endpoint                                                *)
(*   SpecStore     storeThreats and storeSecurityAlerts, called twice      *)
(*   SpecStartup   startAnalyzers, stopAnalyzers and the cron jobs         *)
(*   SpecSecurity  threat_alerts rows and calculateSecurityScore           *)
(*   SpecFollow    agent_relationships and linkByFollowingRelationships    *)
(*   SpecTemporal  NetworkAnalyzer.addTemporalInteractionEdges             *)
(*   SpecLifecycle start() and stop() called at any time on one instance   *)
(*   SpecAmpl      NetworkAnalyzer.findAmplificationNetworks               *)
(*                                                                         *)
(* Numbers: risk scores and confidences are JavaScript doubles in the      *)
(* source; here they are exact rationals scaled to integers (risk and      *)
(* edge weight in 1/1000, link confidence in 1/300).                       *)
(***************************************************************************)
EXTENDS Integers, Sequences, FiniteSets, TLC

VARIABLES
  \* ---- scheduling (NetworkAnalyzer / ThreatIntelligenceAnalyzer) ----
  isRunning,      \* [component -> BOOLEAN]  this.isRunning
  analysisJob,    \* [component -> BOOLEAN]  this.analysisJob # null
  liveJobs,       \* [component -> Nat]      CronJob objects started and not stopped
  initialRuns,    \* [component -> Nat]      analyze() calls in flight awaited by start()
  cronRuns,       \* [component -> Nat]      analyze() calls in flight started by a cron tick
  startCalled,    \* [component -> BOOLEAN]  startAnalyzers has called start() on the instance
  triggers,       \* [component -> Nat]      cron ticks so far
  \* ---- ThreatIntelligenceAnalyzer.analyze ----
  tiPc,           \* position of the run inside analyze(); "done" after the try
                  \* block, "storeFailed"/"landscapeFailed" after the catch
  threats,        \* signals collected so far, in array order
  detected,       \* the array handed to correlateThreats, as it was before the call
  correlated,     \* the array correlateThreats returned
  threatTable,    \* rows of table threat_intelligence
  tableExists,    \* table threat_intelligence has been created
  landscape,      \* rows of analytics_snapshots with snapshot_type 'threat_landscape'
  \* ---- NetworkAnalyzer.detectCommunityStructures ----
  graphPc,        \* "input" while the interactions argument is chosen, then "detected"
  graphEdges,     \* interactions.edges: array of [source, target, weight]
  communities,    \* the array detectCommunityStructures returned
  \* ---- NetworkAnalyzer.buildInteractionNetwork ----
  posts,          \* [agent -> [submolt -> posts of the agent there in the window]]
  agentRep,       \* [agent -> agents.reputation_score]
  built,          \* [run -> what buildInteractionNetwork returned in that run]
  \* ---- IdentityResolver.createUnifiedProfiles ----
  links,          \* rows of agent_identity_links, unique on (primary, linked)
  profiles,       \* rows of agent_unified_profiles, unique on primary_agent_id
  profilesFresh,  \* history: createUnifiedProfiles completed after the last link write
  \* ---- IdentityResolver.resolveIdentities ----
  agents,         \* [id -> row of the agents table with its followee count]
  rPc,            \* position of the resolveIdentities call in progress
  pairs,          \* rows the phase's SELECT returned, awaiting its transaction
  runs,           \* resolveIdentities calls started
  linksAfter,     \* history: [run -> links when the run had finished phase 4]
  reached,        \* history: [run -> the run finished phases 1 to 4]
  peak,           \* history: [pair -> highest confidence ever stored for it]
  otherWrites,    \* rows inserted by a writer other than the resolver
  threatAlerts,   \* rows of threat_alerts written by detectSockPuppets
  resolveThrown,  \* history: the last resolveIdentities call rejected to its caller
  \* ---- ReputationEngine.calculateReputation ----
  repInput,       \* the agent's row, metrics, post aggregates and threat alerts
  repPc,          \* position of the calculateReputation call in progress
  repRuns,        \* calculateReputation calls started
  scores,         \* [category -> row of agent_reputation_scores for the agent]
  breakdown,      \* factor_breakdown of the composite row
  computed,       \* history: phases the call in progress has completed
  failedPhase,    \* history: the phase whose statement threw in this call
  repThrown,      \* history: the last call rethrew to its caller
  scoresAfter,    \* history: [run -> scores when the run ended]
  leaderboards,   \* leaderboard_top100 rows in analytics_snapshots
  \* ---- IdentityResolver.stringSimilarity / levenshteinDistance ----
  str1, str2,     \* the two arguments
  similarity,     \* what stringSimilarity(str1, str2) returned
  distance,       \* what levenshteinDistance(str1, str2) returned
  \* ---- the agents table and linkExactMatches ----
  offered,        \* the accounts observed on the platforms, in order of arrival
  nextOffer,      \* index of the next account to store
  agentRows,      \* rows of the agents table, by id
  exactLinks,     \* rows of agent_identity_links
  ingestPc,       \* "ingest" while accounts arrive, then "resolved"
  \* ---- NetworkAnalyzer.analyze and GET /api/v1/analytics ----
  netPc,          \* position of the analyze() call in progress
  netRuns,        \* analyze() calls started
  interactions,   \* what buildInteractionNetwork returned to analyze()
  buildThrew,     \* history: the build of the call in progress threw inside its try
  netSnapshots,   \* network_analysis rows of analytics_snapshots, oldest first
  analyticsCache, \* the cached response of the analytics endpoint, if any
  analytics,      \* the rows the endpoint sent last
  netThrown,      \* history: an analyze() call rejected to its caller
  \* ---- storeThreats and storeSecurityAlerts, called again on the same input ----
  alertInput,     \* the threats array handed to storeThreats, the same in every call
  skillAlerts,    \* analysis.alerts of the scanned skill, the same in every scan
  storeCalls,     \* [writer -> calls made]
  storedThreats,  \* rows of threat_intelligence, in id order
  storedAlerts,   \* rows of security_alerts, in id order
  storeCompleted, \* history: [writer -> calls that returned without throwing]
  afterFirst,     \* history: [writer -> its table when its first call had returned]
  \* ---- startAnalyzers / stopAnalyzers ----
  saPc,           \* position inside startAnalyzers; "done" when it has returned
  analyzers,      \* the module array analyzers, in push order
  scheduled,      \* [component -> its CronJob is live]
  invocations,    \* [component -> runs of its entry point started so far]
  inFlight,       \* [component -> runs started by a cron tick and not yet returned]
  \* ---- storeThreats feeding calculateSecurityScore ----
  agentAlerts,    \* rows of threat_alerts about the agent in the trailing 90 days,
                  \* counted by severity
  agentSignals,   \* rows of threat_intelligence about the agent, in id order
  securityRecord, \* the security_record row of the agent, with what it was computed from
  previousRecord, \* history: the row the last upsert replaced
  \* ---- linkByFollowingRelationships over two agents ----
  follows,        \* [agent -> the agents it follows in agent_relationships]
  followLinks,    \* rows of agent_identity_links the statement inserted
  followPc,       \* "input", then "linked" when the statement has run
  \* ---- NetworkAnalyzer.addTemporalInteractionEdges over two agents ----
  hourPosts,      \* [agent -> [hour of day -> posts of the agent in the last 14 days]]
  temporalNodes,  \* the agents that are keys of the nodes map
  temporalEdge,   \* the temporal edge of the pair in the edges map, if any
  temporalPc,     \* "input", then "added" when the method has returned
  ampEdges,        \* interactions.edges handed to findAmplificationNetworks
  ampPatterns,     \* the patterns array it returned
  ampPc            \* "input" while the graph is built, "done" after the call

schedVars == <<isRunning, analysisJob, liveJobs, initialRuns, cronRuns, startCalled,
              triggers>>
threatVars == <<tiPc, threats, detected, correlated, threatTable, tableExists, landscape>>
communityVars == <<graphPc, graphEdges, communities>>
buildVars == <<posts, agentRep, built>>
profileVars == <<links, profiles, profilesFresh>>
resolveVars == <<agents, rPc, pairs, runs, linksAfter, reached, peak, otherWrites,
                 threatAlerts, resolveThrown>>
repVars == <<repInput, repPc, repRuns, scores, breakdown, computed, failedPhase,
             repThrown, scoresAfter, leaderboards>>
stringVars == <<str1, str2, similarity, distance>>
ingestVars == <<offered, nextOffer, agentRows, exactLinks, ingestPc>>
snapshotVars == <<netPc, netRuns, interactions, buildThrew, netSnapshots, analyticsCache,
                  analytics, netThrown>>
storeVars == <<alertInput, skillAlerts, storeCalls, storedThreats, storedAlerts,
              storeCompleted, afterFirst>>
startupVars == <<saPc, analyzers, scheduled, invocations, inFlight>>
securityVars == <<agentAlerts, agentSignals, securityRecord, previousRecord>>
followVars == <<follows, followLinks, followPc>>
temporalVars == <<hourPosts, temporalNodes, temporalEdge, temporalPc>>
amplVars == <<ampEdges, ampPatterns, ampPc>>
vars == <<schedVars, threatVars, communityVars, buildVars, profileVars, resolveVars,
          repVars, stringVars, ingestVars,
   snapshotVars,
   storeVars,
   startupVars,
   securityVars,
   followVars,
   temporalVars,
   amplVars>>
\* what the actions of one component leave alone
notSched == <<threatVars, communityVars, buildVars, profileVars, resolveVars, repVars,
   stringVars, ingestVars,
   snapshotVars,
   storeVars,
   startupVars,
   securityVars,
   followVars,
   temporalVars,
   amplVars>>
notThreat == <<schedVars, communityVars, buildVars, profileVars, resolveVars, repVars,
   stringVars, ingestVars,
   snapshotVars,
   storeVars,
   startupVars,
   securityVars,
   followVars,
   temporalVars,
   amplVars>>
notCommunity == <<schedVars, threatVars, buildVars, profileVars, resolveVars, repVars,
   stringVars, ingestVars,
   snapshotVars,
   storeVars,
   startupVars,
   securityVars,
   followVars,
   temporalVars,
   amplVars>>
notBuild == <<schedVars, threatVars, communityVars, profileVars, resolveVars, repVars,
   stringVars, ingestVars,
   snapshotVars,
   storeVars,
   startupVars,
   securityVars,
   followVars,
   temporalVars,
   amplVars>>
notProfile == <<schedVars, threatVars, communityVars, buildVars, resolveVars, repVars,
   stringVars, ingestVars,
   snapshotVars,
   storeVars,
   startupVars,
   securityVars,
   followVars,
   temporalVars,
   amplVars>>
\* the resolver writes links and leaves the profile table alone
notResolve == <<schedVars, threatVars, communityVars, buildVars, profiles, profilesFresh,
                repVars, stringVars, ingestVars,
   snapshotVars,
   storeVars,
   startupVars,
   securityVars,
   followVars,
   temporalVars,
   amplVars>>
notRep == <<schedVars, threatVars, communityVars, buildVars, profileVars, resolveVars,
            stringVars, ingestVars,
   snapshotVars,
   storeVars,
   startupVars,
   securityVars,
   followVars,
   temporalVars,
   amplVars>>
notString == <<schedVars, threatVars, communityVars, buildVars, profileVars, resolveVars,
               repVars, ingestVars,
   snapshotVars,
   storeVars,
   startupVars,
   securityVars,
   followVars,
   temporalVars,
   amplVars>>
notIngest == <<schedVars, threatVars, communityVars, buildVars, profileVars, resolveVars,
               repVars, stringVars,
   snapshotVars,
   storeVars,
   startupVars,
   securityVars,
   followVars,
   temporalVars,
   amplVars>>
notSnapshot == <<schedVars, threatVars, communityVars, buildVars, profileVars, resolveVars, repVars, stringVars, ingestVars,
   storeVars,
   startupVars,
   securityVars,
   followVars,
   temporalVars,
   amplVars>>
notStore == <<schedVars, threatVars, communityVars, buildVars, profileVars, resolveVars, repVars, stringVars, ingestVars, snapshotVars,
   startupVars,
   securityVars,
   followVars,
   temporalVars,
   amplVars>>
notStartup == <<schedVars, threatVars, communityVars, buildVars, profileVars, resolveVars, repVars, stringVars, ingestVars, snapshotVars, storeVars,
   securityVars,
   followVars,
   temporalVars,
   amplVars>>
notSecurity == <<schedVars, threatVars, communityVars, buildVars, profileVars, resolveVars, repVars, stringVars, ingestVars, snapshotVars, storeVars, startupVars,
   followVars,
   temporalVars,
   amplVars>>
notFollow == <<schedVars, threatVars, communityVars, buildVars, profileVars, resolveVars, repVars, stringVars, ingestVars, snapshotVars, storeVars, startupVars, securityVars,
   temporalVars,
   amplVars>>
notTemporal == <<schedVars, threatVars, communityVars, buildVars, profileVars, resolveVars, repVars, stringVars, ingestVars, snapshotVars, storeVars, startupVars, securityVars, followVars,
   amplVars>>
notAmpl == <<schedVars, threatVars, communityVars, buildVars, profileVars, resolveVars, repVars, stringVars, ingestVars, snapshotVars, storeVars, startupVars, securityVars, followVars, temporalVars>>

\* ------------------------------------------------------------------------
\* helpers
\* ------------------------------------------------------------------------
Min(a, b) == IF a < b THEN a ELSE b
Max(a, b) == IF a > b THEN a ELSE b
Range(s) == {s[i] : i \in DOMAIN s}

\* All sequences over S of length 0..n
SeqUpTo(S, n) == UNION {[1..k -> S] : k \in 0..n}

\* ------------------------------------------------------------------------
\* Scheduling: start(), the CronJob, stop()
\* ------------------------------------------------------------------------
Components == {"network", "threat"}

\* Bound on the cron ticks per component.
MaxTriggers == 3

InitSched ==
  /\ isRunning = [c \in Components |-> FALSE]
  /\ analysisJob = [c \in Components |-> FALSE]
  /\ liveJobs = [c \in Components |-> 0]
  /\ initialRuns = [c \in Components |-> 0]
  /\ cronRuns = [c \in Components |-> 0]
  /\ startCalled = [c \in Components |-> FALSE]
  /\ triggers = [c \in Components |-> 0]

\* The test start() makes before anything else: only isRunning, which is set
\* after the initial run has finished.
StartGuard(c) == ~isRunning[c]

\* start() up to its first await: the guard, then analyze() is called.
\* startAnalyzers calls start() once on each instance it creates.
Start(c) ==
  /\ ~startCalled[c]
  /\ startCalled' = [startCalled EXCEPT ![c] = TRUE]
  /\ IF StartGuard(c)
       THEN initialRuns' = [initialRuns EXCEPT ![c] = @ + 1]
       ELSE UNCHANGED initialRuns
  /\ UNCHANGED <<isRunning, analysisJob, liveJobs, cronRuns, triggers>>
  /\ UNCHANGED notSched

\* The initial analyze() returns (it never throws: analyze catches everything);
\* start() creates and starts the CronJob and sets isRunning.
InitialRunEnd(c) ==
  /\ initialRuns[c] > 0
  /\ initialRuns' = [initialRuns EXCEPT ![c] = @ - 1]
  /\ analysisJob' = [analysisJob EXCEPT ![c] = TRUE]
  /\ liveJobs' = [liveJobs EXCEPT ![c] = @ + 1]
  /\ isRunning' = [isRunning EXCEPT ![c] = TRUE]
  /\ UNCHANGED <<cronRuns, startCalled, triggers>>
  /\ UNCHANGED notSched

\* A cron tick of a live job: async () => { await this.analyze(); }
\* The callback tests nothing before it calls analyze().
CronTick(c) ==
  /\ liveJobs[c] > 0
  /\ triggers[c] < MaxTriggers
  /\ triggers' = [triggers EXCEPT ![c] = @ + 1]
  /\ cronRuns' = [cronRuns EXCEPT ![c] = @ + 1]
  /\ UNCHANGED <<isRunning, analysisJob, liveJobs, initialRuns, startCalled>>
  /\ UNCHANGED notSched

\* An analyze() started by a tick returns.
CronRunEnd(c) ==
  /\ cronRuns[c] > 0
  /\ cronRuns' = [cronRuns EXCEPT ![c] = @ - 1]
  /\ UNCHANGED <<isRunning, analysisJob, liveJobs, initialRuns, startCalled, triggers>>
  /\ UNCHANGED notSched

\* stop(): stops the job the field refers to, clears the field and the flag.
\* Runs in flight are not awaited or cancelled.
Stop(c) ==
  /\ isRunning[c] \/ analysisJob[c]
  /\ liveJobs' = [liveJobs EXCEPT ![c] = IF analysisJob[c] THEN @ - 1 ELSE @]
  /\ analysisJob' = [analysisJob EXCEPT ![c] = FALSE]
  /\ isRunning' = [isRunning EXCEPT ![c] = FALSE]
  /\ UNCHANGED <<initialRuns, cronRuns, startCalled, triggers>>
  /\ UNCHANGED notSched

ActiveRuns(c) == initialRuns[c] + cronRuns[c]

\* ------------------------------------------------------------------------
\* ThreatIntelligenceAnalyzer: detectors, correlateThreats, storeThreats,
\* updateThreatLandscape
\* ------------------------------------------------------------------------
\* A signal is a record
\*   [ord, type, subtype, agent_id, agent_name, author, risk, boost]
\* ord is the object's identity (its index in the array handed to
\* correlateThreats); risk is risk_score in 1/1000; boost is
\* correlation_boost in 1/10, NoBoost while the property is not set.
Null == "null"
NoBoost == 0
Authors == {"alice", "bob"}

\* Bound on the signals the detectors of one run produce together.
MaxSignals == 3

\* Result rows of the detector queries (the columns the code reads).
RapidRows == [agent_id : {"id1"}, skill_count : {6, 7}]
CredRows == [author : Authors, suspicious_skills : {3, 5}]
SuspiciousRows == [author : {"alice"}, security_score : {20, 60},
                   alert_count : {0, 4}, severity : {Null, "high"}]
\* skills.author is a nullable column: a row may carry no author
UpdateRows == [author : Authors \cup {Null}]
CoordRows == [author : {"bob"}, skills_count : {4, 6}, active_days : {1, 4}]
ReputationRows == [name : Authors]
\* z_score in 1/10; the query keeps rows more than 3 deviations above the mean
AnomalyRows == [author : Authors, z_score : {35, 50}]

Signal(type, subtype, id, name, author, risk) ==
  [ord |-> 0, type |-> type, subtype |-> subtype, agent_id |-> id,
   agent_name |-> name, author |-> author, risk |-> risk, boost |-> NoBoost]

RapidRisk(r) == Min(900, 300 + r.skill_count * 100)
CredentialRisk(r) == 800 + r.suspicious_skills * 50
SuspiciousRisk(r) ==
  Min(300 + (IF r.security_score < 30 THEN 400 ELSE 0)
          + (IF r.alert_count > 3 THEN 300 ELSE 0)
          + (IF r.severity = "high" THEN 500 ELSE 0), 1000)
UpdateRisk(r) == 500
CoordinatedRisk(r) == Min(400 + r.skills_count * 100 - r.active_days * 50, 900)
ReputationRisk(r) == 600
AnomalyRisk(r) == Min(700, 300 + r.z_score * 10)

RapidSignal(r) ==
  Signal("agent_behavior", "rapid_skill_creation", r.agent_id, Null, Null, RapidRisk(r))
CredentialSignal(r) ==
  Signal("agent_behavior", "credential_harvesting", Null, r.author, Null, CredentialRisk(r))
SuspiciousSignal(r) ==
  Signal("supply_chain", "suspicious_skill", Null, Null, r.author, SuspiciousRisk(r))
UpdateSignal(r) ==
  Signal("supply_chain", "unusual_update_pattern", Null, Null, r.author, UpdateRisk(r))
CoordinatedSignal(r) ==
  Signal("network_threats", "coordinated_behavior", Null, Null, r.author, CoordinatedRisk(r))
ReputationSignal(r) ==
  Signal("network_threats", "reputation_manipulation", Null, r.name, Null, ReputationRisk(r))
AnomalySignal(r) ==
  Signal("anomaly", "download_spike", Null, Null, r.author, AnomalyRisk(r))

\* threats.push(...) for every row of one or two query results; a query that
\* throws ends the detector with what was pushed before (its try/catch).
Detector(ok1, first, ok2, second) ==
  IF ~ok1 THEN <<>> ELSE IF ~ok2 THEN first ELSE first \o second

\* [...a, ...b, ...]: the detectors' arrays concatenated in call order.
Append2(old, new) ==
  old \o [i \in 1..Len(new) |-> [new[i] EXCEPT !.ord = Len(old) + i]]

InitThreat ==
  /\ tiPc = "idle"
  /\ threats = <<>>
  /\ detected = <<>>
  /\ correlated = <<>>
  /\ threatTable = <<>>
  /\ landscape = <<>>

\* Rows the remaining queries of the run may still return (model bound).
Budget == MaxSignals - Len(threats)

AnalyzeAgentBehavior ==
  /\ tiPc = "behavior"
  /\ \E ok1 \in BOOLEAN, ok2 \in BOOLEAN, rapid \in SeqUpTo(RapidRows, Budget) :
       \E cred \in SeqUpTo(CredRows, Budget - Len(rapid)) :
         threats' = Append2(threats,
                      Detector(ok1, [i \in 1..Len(rapid) |-> RapidSignal(rapid[i])],
                               ok2, [i \in 1..Len(cred) |-> CredentialSignal(cred[i])]))
  /\ tiPc' = "supply"
  /\ UNCHANGED <<detected, correlated, threatTable, tableExists, landscape>>
  /\ UNCHANGED notThreat

AnalyzeSupplyChainRisks ==
  /\ tiPc = "supply"
  /\ \E ok1 \in BOOLEAN, ok2 \in BOOLEAN, susp \in SeqUpTo(SuspiciousRows, Budget) :
       \E upd \in SeqUpTo(UpdateRows, Budget - Len(susp)) :
         threats' = Append2(threats,
                      Detector(ok1, [i \in 1..Len(susp) |-> SuspiciousSignal(susp[i])],
                               ok2, [i \in 1..Len(upd) |-> UpdateSignal(upd[i])]))
  /\ tiPc' = "network"
  /\ UNCHANGED <<detected, correlated, threatTable, tableExists, landscape>>
  /\ UNCHANGED notThreat

AnalyzeNetworkPatterns ==
  /\ tiPc = "network"
  /\ \E ok1 \in BOOLEAN, ok2 \in BOOLEAN, coord \in SeqUpTo(CoordRows, Budget) :
       \E rep \in SeqUpTo(ReputationRows, Budget - Len(coord)) :
         threats' = Append2(threats,
                      Detector(ok1, [i \in 1..Len(coord) |-> CoordinatedSignal(coord[i])],
                               ok2, [i \in 1..Len(rep) |-> ReputationSignal(rep[i])]))
  /\ tiPc' = "anomaly"
  /\ UNCHANGED <<detected, correlated, threatTable, tableExists, landscape>>
  /\ UNCHANGED notThreat

DetectAnomalies ==
  /\ tiPc = "anomaly"
  /\ \E ok1 \in BOOLEAN, anom \in SeqUpTo(AnomalyRows, Budget) :
       threats' = Append2(threats,
                    Detector(ok1, [i \in 1..Len(anom) |-> AnomalySignal(anom[i])],
                             TRUE, <<>>))
  /\ tiPc' = "correlate"
  /\ UNCHANGED <<detected, correlated, threatTable, tableExists, landscape>>
  /\ UNCHANGED notThreat

\* const key = threat.agent_id || threat.agent_name || threat.author || 'unknown'
CorrelationKey(t) ==
  IF t.agent_id # Null THEN t.agent_id
  ELSE IF t.agent_name # Null THEN t.agent_name
  ELSE IF t.author # Null THEN t.author
  ELSE "unknown"

\* correlationMap.get(key).length
SignalCount(ts, key) == Cardinality({i \in DOMAIN ts : CorrelationKey(ts[i]) = key})

\* Mutant of BoostFactor: the factor grows with the count, not the count less one.
BoostFactorPerSignal(n) == 10 + n * 2

\* 1 + (agentThreats.length - 1) * 0.2, in 1/10
BoostFactor(n) == 10 + (n - 1) * 2

\* Math.min(threat.risk_score * boostFactor, 1.0)
BoostedRisk(risk, n) == Min((risk * BoostFactor(n)) \div 10, 1000)

\* Mutant of Boost: the boost is applied and recorded for every key.
BoostEveryKey(ts) ==
  [i \in DOMAIN ts |->
     LET n == SignalCount(ts, CorrelationKey(ts[i])) IN
       [ts[i] EXCEPT !.risk = BoostedRisk(@, n), !.boost = BoostFactor(n)]]

\* The forEach over correlationMap: signals of a key with more than one signal
\* get the boosted risk and correlation_boost; the others are not touched.
Boost(ts) ==
  [i \in DOMAIN ts |->
     LET n == SignalCount(ts, CorrelationKey(ts[i])) IN
       IF n > 1
         THEN [ts[i] EXCEPT !.risk = BoostedRisk(@, n), !.boost = BoostFactor(n)]
         ELSE ts[i]]

\* threats.sort((a, b) => b.risk_score - a.risk_score): stable, descending.
InsertDesc(x, s) ==
  LET k == Cardinality({i \in DOMAIN s : s[i].risk >= x.risk}) IN
    SubSeq(s, 1, k) \o <<x>> \o SubSeq(s, k + 1, Len(s))

RECURSIVE SortDesc(_)
SortDesc(s) ==
  IF s = <<>> THEN <<>>
  ELSE LET n == Len(s) IN
    \* s[n] goes behind every earlier element of at least its risk
    InsertDesc(s[n], SortDesc(SubSeq(s, 1, n - 1)))

CorrelateThreatsResult(ts) == SortDesc(Boost(ts))

\* analyze() start: the try block is entered.
AnalyzeBegin ==
  /\ tiPc = "idle"
  /\ tiPc' = "behavior"
  /\ threats' = <<>>
  /\ UNCHANGED <<detected, correlated, threatTable, tableExists, landscape>>
  /\ UNCHANGED notThreat

CorrelateThreats ==
  /\ tiPc = "correlate"
  /\ detected' = threats
  /\ correlated' = CorrelateThreatsResult(threats)
  /\ threats' = CorrelateThreatsResult(threats)
  /\ tiPc' = "store"
  /\ UNCHANGED <<threatTable, tableExists, landscape>>
  /\ UNCHANGED notThreat

\* Mutant of AlertThreshold: the threshold itself passes.
AlertThresholdInclusive(t) == t.risk >= 600

\* correlatedThreats.filter(t => t.risk_score > 0.6)
AlertThreshold(t) == t.risk > 600
Alerts(ts) == SelectSeq(ts, AlertThreshold)

\* The columns storeThreats inserts.
ThreatRow(t) == [threat_type |-> t.type, threat_subtype |-> t.subtype,
                 risk_score |-> t.risk]

\* storeThreats(alerts): one INSERT per alert, each its own statement, then
\* CREATE TABLE IF NOT EXISTS threat_intelligence. An INSERT fails when the
\* table does not exist yet, and any statement may fail in the store; the
\* first failing statement throws into analyze()'s catch, which ends the run.
\* k is the number of INSERTs that succeeded, created whether the CREATE did.
StoreThreats ==
  /\ tiPc = "store"
  /\ LET alerts == Alerts(correlated) IN
     \E k \in 0..Len(alerts), created \in BOOLEAN :
       /\ (~tableExists /\ Len(alerts) > 0) => k = 0
       /\ k < Len(alerts) => ~created
       /\ threatTable' = threatTable \o [i \in 1..k |-> ThreatRow(alerts[i])]
       /\ tableExists' = (tableExists \/ created)
       /\ tiPc' = IF k = Len(alerts) /\ created THEN "landscape" ELSE "storeFailed"
  /\ UNCHANGED <<threats, detected, correlated, landscape>>
  /\ UNCHANGED notThreat

HighRisk(t) == t.risk > 800
MediumRisk(t) == t.risk > 600 /\ t.risk <= 800
LowRisk(t) == t.risk <= 600
ThreatTypes == {"agent_behavior", "supply_chain", "network_threats", "anomaly"}

\* The landscape object of updateThreatLandscape (the counts it holds).
Landscape(ts) ==
  [total_threats |-> Len(ts),
   threat_distribution |->
     [ty \in ThreatTypes |-> Cardinality({i \in DOMAIN ts : ts[i].type = ty})],
   risk_distribution |->
     [high_risk |-> Len(SelectSeq(ts, HighRisk)),
      medium_risk |-> Len(SelectSeq(ts, MediumRisk)),
      low_risk |-> Len(SelectSeq(ts, LowRisk))]]

\* updateThreatLandscape(correlatedThreats): builds the summary and inserts
\* the snapshot; a failing INSERT throws into analyze()'s catch.
UpdateThreatLandscape ==
  /\ tiPc = "landscape"
  /\ \E ok \in BOOLEAN :
       IF ok
         THEN /\ landscape' = Append(landscape, Landscape(correlated))
              /\ tiPc' = "done"
         ELSE /\ UNCHANGED landscape
              /\ tiPc' = "landscapeFailed"
  /\ UNCHANGED <<threats, detected, correlated, threatTable, tableExists>>
  /\ UNCHANGED notThreat

InitThreatRun ==
  /\ InitThreat
  /\ tableExists \in BOOLEAN

NextThreat ==
  \/ AnalyzeBegin
  \/ AnalyzeAgentBehavior
  \/ AnalyzeSupplyChainRisks
  \/ AnalyzeNetworkPatterns
  \/ DetectAnomalies
  \/ CorrelateThreats
  \/ StoreThreats
  \/ UpdateThreatLandscape

\* ------------------------------------------------------------------------
\* NetworkAnalyzer.detectCommunityStructures / exploreWeightedCommunity
\* ------------------------------------------------------------------------
\* interactions.nodes holds the five nodes 1..5 in this order; edge weights
\* are in 1/1000. The edges array is listed in ascending (source, target,
\* weight) order, source < target; several edges may join the same pair.
NodeIds == 1..5
MaxEdges == 4
EdgeWeights == {100, 300, 500}
Threshold == 300

CandidateEdges ==
  {e \in [source : NodeIds, target : NodeIds, weight : EdgeWeights] :
     e.source < e.target}
EdgeRank(e) == (e.source * (Cardinality(NodeIds) + 1) + e.target) * 1000 + e.weight

InitCommunity ==
  /\ graphPc = "input"
  /\ graphEdges = <<>>
  /\ communities = <<>>

\* One more edge of the interactions argument.
AddEdge ==
  /\ graphPc = "input"
  /\ Len(graphEdges) < MaxEdges
  /\ \E e \in CandidateEdges :
       /\ Len(graphEdges) > 0 => EdgeRank(graphEdges[Len(graphEdges)]) < EdgeRank(e)
       /\ graphEdges' = Append(graphEdges, e)
  /\ UNCHANGED <<graphPc, communities>>
  /\ UNCHANGED notCommunity

\* The adjacency list: for every edge in array order, target is pushed on
\* source's list and source on target's.
RECURSIVE AdjList(_, _)
AdjList(edges, k) ==
  IF k = 0 THEN [n \in NodeIds |-> <<>>]
  ELSE LET adj == AdjList(edges, k - 1)
           e == edges[k]
           a1 == [adj EXCEPT ![e.source] =
                    Append(@, [nodeId |-> e.target, weight |-> e.weight])]
       IN [a1 EXCEPT ![e.target] =
             Append(@, [nodeId |-> e.source, weight |-> e.weight])]

\* Mutant of StrongEnough: the threshold itself passes.
StrongEnoughInclusive(w) == w >= Threshold

\* neighbor.weight > threshold
StrongEnough(w) == w > Threshold

RECURSIVE SumWeights(_)
SumWeights(s) == IF s = <<>> THEN 0 ELSE s[1].weight + SumWeights(Tail(s))

\* exploreWeightedCommunity: the while loop over the queue. comm is the
\* community object, visited the set shared with the caller.
RECURSIVE Explore(_, _, _, _)
Explore(queue, visited, comm, adj) ==
  IF queue = <<>> THEN [community |-> comm, visited |-> visited]
  ELSE LET nodeId == Head(queue) IN
    IF nodeId \in visited THEN Explore(Tail(queue), visited, comm, adj)
    ELSE LET seen == visited \cup {nodeId}
             next == SelectSeq(adj[nodeId],
                       LAMBDA nb : nb.nodeId \notin seen /\ StrongEnough(nb.weight))
         IN Explore(Tail(queue) \o [i \in 1..Len(next) |-> next[i].nodeId],
                    seen,
                    [nodes |-> Append(comm.nodes, nodeId),
                     total_weight |-> comm.total_weight + SumWeights(next),
                     edges |-> comm.edges + Len(next)],
                    adj)

\* nodeIds.sort() of generateCommunityId, which sorts community.nodes in
\* place (as strings; the same as by number for the one-digit ids used here).
RECURSIVE SortIds(_)
SortIds(s) ==
  IF s = <<>> THEN <<>>
  ELSE LET m == CHOOSE x \in Range(s) : \A y \in Range(s) : x <= y
       IN <<m>> \o SortIds(SelectSeq(s, LAMBDA x : x # m))

\* The loop over nodes of detectCommunityStructures: a community is explored
\* from every node not visited yet and kept when it has more than one node.
RECURSIVE DetectFrom(_, _, _, _)
DetectFrom(n, visited, found, adj) ==
  IF n \notin NodeIds THEN found
  ELSE IF n \in visited THEN DetectFrom(n + 1, visited, found, adj)
  ELSE LET r == Explore(<<n>>, visited, [nodes |-> <<>>, total_weight |-> 0, edges |-> 0], adj)
           c == r.community
       IN DetectFrom(n + 1, r.visited,
                     IF Len(c.nodes) > 1
                       THEN Append(found, [c EXCEPT !.nodes = SortIds(@)])
                       ELSE found,
                     adj)

\* communities.sort by nodes.length * avg_weight, descending and stable;
\* avg_weight = total_weight / edges, compared by cross-multiplication.
InsertCommunity(x, s) ==
  LET k == Cardinality({i \in DOMAIN s :
             Len(s[i].nodes) * s[i].total_weight * x.edges
               >= Len(x.nodes) * x.total_weight * s[i].edges})
  IN SubSeq(s, 1, k) \o <<x>> \o SubSeq(s, k + 1, Len(s))

RECURSIVE SortCommunities(_)
SortCommunities(s) ==
  IF s = <<>> THEN <<>>
  ELSE InsertCommunity(s[Len(s)], SortCommunities(SubSeq(s, 1, Len(s) - 1)))

DetectCommunityStructuresResult(edges) ==
  SortCommunities(DetectFrom(1, {}, <<>>, AdjList(edges, Len(edges))))

DetectCommunityStructures ==
  /\ graphPc = "input"
  /\ communities' = DetectCommunityStructuresResult(graphEdges)
  /\ graphPc' = "detected"
  /\ UNCHANGED graphEdges
  /\ UNCHANGED notCommunity

NextCommunity == AddEdge \/ DetectCommunityStructures

\* Reference: the nodes joined to n by a path of edges heavier than 0.3.
Strong(a, b) == \E i \in DOMAIN graphEdges :
                  /\ {graphEdges[i].source, graphEdges[i].target} = {a, b}
                  /\ graphEdges[i].weight > 300
RECURSIVE Closure(_)
Closure(S) ==
  LET T == S \cup {b \in NodeIds : \E a \in S : Strong(a, b)}
  IN IF T = S THEN S ELSE Closure(T)
StrongComponents == {C \in {Closure({n}) : n \in NodeIds} : Cardinality(C) >= 2}

\* C6: the communities are exactly the connected components of size >= 2 of
\* the graph that keeps only the edges heavier than 0.3, each reported once.
C6_CommunitiesAreStrongComponents ==
  graphPc = "detected" =>
    /\ {Range(communities[i].nodes) : i \in DOMAIN communities} = StrongComponents
    /\ Len(communities) = Cardinality(StrongComponents)
    /\ \A i \in DOMAIN communities :
         /\ Len(communities[i].nodes) = Cardinality(Range(communities[i].nodes))
         /\ Len(communities[i].nodes) >= 2
    /\ \A i, j \in DOMAIN communities :
         i # j => Range(communities[i].nodes) \cap Range(communities[j].nodes) = {}

\* C6 witness: {1,2,3} pairwise at 0.5 and 4-5 at 0.1 give the one community {1,2,3}.
C6_Witness ==
  /\ graphPc = "detected"
  /\ Range(graphEdges) = {[source |-> 1, target |-> 2, weight |-> 500],
                          [source |-> 1, target |-> 3, weight |-> 500],
                          [source |-> 2, target |-> 3, weight |-> 500],
                          [source |-> 4, target |-> 5, weight |-> 100]}
  /\ Len(communities) = 1
  /\ communities[1].nodes = <<1, 2, 3>>

\* ------------------------------------------------------------------------
\* NetworkAnalyzer.buildInteractionNetwork and its edge passes
\* ------------------------------------------------------------------------
\* The window holds the posts of two agents in two submolts; it holds no
\* skills, and no agent has more than two posts in one hour of the day (the
\* skill and temporal queries return no rows). An edge weight is
\* [fn |-> "log", arg |-> x] for Math.log(x) and [fn |-> "milli", arg |-> m]
\* for m/1000.
GraphAgents == {1, 2}
Submolts == {"x", "y"}
RepValues == {0, 100, 120}
\* Bound on the posts of one agent in one submolt.
MaxPosts == 3
BuildRuns == {1, 2}

NotBuilt == [done |-> FALSE, ok |-> FALSE, nodes |-> <<>>, edges |-> <<>>]

InitBuild ==
  /\ posts = [a \in GraphAgents |-> [s \in Submolts |-> 0]]
  /\ agentRep = [a \in GraphAgents |-> 0]
  /\ built = [r \in BuildRuns |-> NotBuilt]

InitBuildData ==
  /\ posts \in [GraphAgents -> [Submolts -> 0..MaxPosts]]
  /\ agentRep \in [GraphAgents -> RepValues]
  /\ built = [r \in BuildRuns |-> NotBuilt]

\* Rows of the agents query: the agents with a post in the window.
AgentRows == {a \in GraphAgents : \E s \in Submolts : posts[a][s] > 0}

\* Rows of the submolt query: one per (p1.agent_id, p2.agent_id, submolt)
\* group of the self-join with more than 2 joined pairs.
SubmoltRows ==
  {r \in [agent1 : GraphAgents, agent2 : GraphAgents, submolt : Submolts,
          shared_submolt_count : 0..(MaxPosts * MaxPosts)] :
     /\ r.agent1 # r.agent2
     /\ r.shared_submolt_count = posts[r.agent1][r.submolt] * posts[r.agent2][r.submolt]
     /\ r.shared_submolt_count > 2}

\* The orders in which the store may return a set of rows.
Orders(S) == {f \in [1..Cardinality(S) -> S] : Range(f) = S}

EdgeId(a, b, kind) == <<Min(a, b), Max(a, b), kind>>
HasEdge(edges, id) == \E i \in DOMAIN edges : edges[i].id = id

\* if (!edges.has(edgeId)) edges.set(edgeId, {...})
PutEdge(edges, e) == IF HasEdge(edges, e.id) THEN edges ELSE Append(edges, e)

\* addPostInteractionEdges: the loop over the rows in the order returned.
RECURSIVE AddPostInteractionEdges(_, _, _, _)
AddPostInteractionEdges(rows, k, nodes, edges) ==
  IF k > Len(rows) THEN edges
  ELSE LET collab == rows[k] IN
    AddPostInteractionEdges(rows, k + 1, nodes,
      IF collab.agent1 \in Range(nodes) /\ collab.agent2 \in Range(nodes)
        THEN PutEdge(edges,
               [id |-> EdgeId(collab.agent1, collab.agent2, "submolt"),
                source |-> collab.agent1, target |-> collab.agent2,
                type |-> "submolt_collaboration",
                weight |-> [fn |-> "log", arg |-> collab.shared_submolt_count + 1],
                submolt |-> collab.submolt])
        ELSE edges)

\* addReputationInteractionEdges: pairs i < j of the node array; k runs over
\* the pairs (i, j) in loop order.
RECURSIVE AddReputationInteractionEdges(_, _, _)
AddReputationInteractionEdges(nodes, k, edges) ==
  LET n == Len(nodes) IN
  IF k >= n * n THEN edges
  ELSE LET i == (k \div n) + 1
           j == (k % n) + 1
           diff == IF agentRep[nodes[i]] > agentRep[nodes[j]]
                     THEN agentRep[nodes[i]] - agentRep[nodes[j]]
                     ELSE agentRep[nodes[j]] - agentRep[nodes[i]]
           maxRep == Max(agentRep[nodes[i]], agentRep[nodes[j]])
       IN AddReputationInteractionEdges(nodes, k + 1,
            IF j > i /\ maxRep > 0 /\ diff * 10 < 3 * maxRep
              THEN PutEdge(edges,
                     [id |-> EdgeId(nodes[i], nodes[j], "reputation"),
                      source |-> nodes[i], target |-> nodes[j],
                      type |-> "reputation_peer",
                      weight |-> [fn |-> "milli",
                                  arg |-> (300 * (Max(maxRep, 1) - diff)) \div Max(maxRep, 1)],
                      submolt |-> Null])
              ELSE edges)

\* buildInteractionNetwork with the agents rows in order agentOrder and the
\* submolt rows in order rowOrder; a query that throws gives the empty network.
BuildResult(ok, agentOrder, rowOrder) ==
  IF ~ok THEN [done |-> TRUE, ok |-> FALSE, nodes |-> <<>>, edges |-> <<>>]
  ELSE [done |-> TRUE, ok |-> TRUE, nodes |-> agentOrder,
        edges |-> AddReputationInteractionEdges(agentOrder, 0,
                    AddPostInteractionEdges(rowOrder, 1, agentOrder, <<>>))]

BuildInteractionNetwork(r) ==
  /\ ~built[r].done
  /\ \A q \in BuildRuns : q < r => built[q].done
  /\ \E ok \in BOOLEAN, agentOrder \in Orders(AgentRows), rowOrder \in Orders(SubmoltRows) :
       built' = [built EXCEPT ![r] = BuildResult(ok, agentOrder, rowOrder)]
  /\ UNCHANGED <<posts, agentRep>>
  /\ UNCHANGED notBuild

NextBuild == \E r \in BuildRuns : BuildInteractionNetwork(r)

EdgeWeightOf(r, id) ==
  LET i == CHOOSE i \in DOMAIN built[r].edges : built[r].edges[i].id = id
  IN built[r].edges[i].weight
EdgeIds(r) == {built[r].edges[i].id : i \in DOMAIN built[r].edges}

\* C5: two runs over the same activity records, neither hit by a store
\* failure, return the same node set, the same edge ids and the same weight
\* for every edge, whatever order the store returned the rows in.
C5_BuildIsDeterministic ==
  (built[1].done /\ built[1].ok /\ built[2].done /\ built[2].ok) =>
    /\ Range(built[1].nodes) = Range(built[2].nodes)
    /\ EdgeIds(1) = EdgeIds(2)
    /\ \A id \in EdgeIds(1) : EdgeWeightOf(1, id) = EdgeWeightOf(2, id)

NextSched ==
  \E c \in Components :
    \/ Start(c)
    \/ InitialRunEnd(c)
    \/ CronTick(c)
    \/ CronRunEnd(c)
    \/ Stop(c)

\* C1: at no time are two runs of the same component executing; a trigger
\* that fires while a run is executing is skipped.
NoOverlappingRuns == \A c \in Components : ActiveRuns(c) <= 1

\* correlateThreats has returned in this run
Correlated == tiPc \in {"store", "landscape", "done", "storeFailed", "landscapeFailed"}

\* the signals of the input array that carry the key of its i-th signal
SameKey(i) == {j \in DOMAIN detected :
                 CorrelationKey(detected[j]) = CorrelationKey(detected[i])}

\* C7: every signal whose key is carried by n > 1 signals ends with risk
\* min(oldRisk * (1 + 0.2*(n-1)), 1.0) and has that factor recorded; the
\* result holds the same signals as the input.
C7_BoostPerKey ==
  Correlated =>
    /\ Len(correlated) = Len(detected)
    /\ {correlated[i].ord : i \in DOMAIN correlated} = DOMAIN detected
    /\ \A i \in DOMAIN correlated :
         LET old == detected[correlated[i].ord]
             n == Cardinality(SameKey(correlated[i].ord))
         IN n > 1 =>
              /\ 10 * correlated[i].risk =
                   (IF old.risk * (10 + 2 * (n - 1)) < 10000
                      THEN old.risk * (10 + 2 * (n - 1)) ELSE 10000)
              /\ correlated[i].boost = 10 + 2 * (n - 1)

\* C7 witness: three signals of base risk 0.5 for one key, each ended at 0.7.
C7_Witness ==
  /\ Correlated
  /\ Len(detected) = 3
  /\ \A i \in DOMAIN detected : detected[i].risk = 500 /\ SameKey(i) = DOMAIN detected
  /\ \A i \in DOMAIN correlated : correlated[i].risk = 700 /\ correlated[i].boost = 14

\* the signal carries none of agent_id, agent_name, author
Unattributed(t) == t.agent_id = Null /\ t.agent_name = Null /\ t.author = Null

\* C28: signals that carry no agent_id, agent_name or author are not grouped
\* with one another: correlateThreats leaves each of them with its risk and
\* records no boost for it.
C28_UnattributedSignalsNotBoosted ==
  Correlated =>
    \A i \in DOMAIN correlated :
      LET old == detected[correlated[i].ord] IN
        Unattributed(old) =>
          correlated[i].boost = NoBoost /\ correlated[i].risk = old.risk

\* C8 as stated: a signal whose key no other signal carries has boost factor
\* exactly 1.0 recorded and its risk unchanged.
C8_SoleSignalBoostIsOne ==
  Correlated =>
    \A i \in DOMAIN correlated :
      LET old == detected[correlated[i].ord] IN
        Cardinality(SameKey(correlated[i].ord)) = 1 =>
          correlated[i].boost = 10 /\ correlated[i].risk = old.risk

\* C8 amended: a signal whose key no other signal carries keeps its risk and
\* has no boost factor recorded (correlation_boost is left unset).
C8_SoleSignalUntouched ==
  Correlated =>
    \A i \in DOMAIN correlated :
      LET old == detected[correlated[i].ord] IN
        Cardinality(SameKey(correlated[i].ord)) = 1 =>
          correlated[i].boost = NoBoost /\ correlated[i].risk = old.risk

\* C8 witness: a sole signal next to a boosted pair of another key.
C8_Witness ==
  /\ Correlated
  /\ \E i, j \in DOMAIN correlated :
       /\ Cardinality(SameKey(correlated[i].ord)) = 1
       /\ correlated[i].boost = NoBoost
       /\ Cardinality(SameKey(correlated[j].ord)) = 2
       /\ correlated[j].boost = 12

\* C9: every signal a detector produced and every signal correlateThreats
\* returned has a risk score in [0,1].
C9_RiskInUnitInterval ==
  /\ \A i \in DOMAIN threats : threats[i].risk >= 0 /\ threats[i].risk <= 1000
  /\ \A i \in DOMAIN correlated : correlated[i].risk >= 0 /\ correlated[i].risk <= 1000

\* rows of threat_intelligence expected of a run: the signals above 0.6
ExpectedAlertRows ==
  LET idx == {i \in DOMAIN correlated : correlated[i].risk > 600}
      pos(i) == Cardinality({j \in idx : j <= i})
  IN [k \in 1..Cardinality(idx) |->
        LET i == CHOOSE i \in idx : pos(i) = k IN
          [threat_type |-> correlated[i].type,
           threat_subtype |-> correlated[i].subtype,
           risk_score |-> correlated[i].risk]]

\* the landscape row covers every correlated signal
LandscapeOverAll ==
  /\ Len(landscape) = 1
  /\ landscape[1].total_threats = Len(detected)
  /\ landscape[1].risk_distribution.low_risk =
       Cardinality({i \in DOMAIN correlated : correlated[i].risk <= 600})
  /\ landscape[1].risk_distribution.high_risk
       + landscape[1].risk_distribution.medium_risk
       + landscape[1].risk_distribution.low_risk = Len(detected)

\* C10 as stated: a completed run has persisted exactly the signals above 0.6
\* and a landscape over all signals, and the landscape is also produced when
\* persisting the alerts failed.
C10_LandscapeEvenIfStoreFails ==
  /\ tiPc = "done" => (threatTable = ExpectedAlertRows /\ LandscapeOverAll)
  /\ tiPc = "storeFailed" => LandscapeOverAll

\* C10 amended: a completed run has persisted exactly the signals above 0.6
\* and a landscape over all signals (also when there are no alerts); a run in
\* which persisting the alerts failed ends without a landscape.
C10_LandscapeOnlyIfStoreSucceeds ==
  /\ tiPc = "done" => (threatTable = ExpectedAlertRows /\ LandscapeOverAll)
  /\ tiPc = "storeFailed" => landscape = <<>>

\* C10 witness: a completed run with signals on both sides of the threshold.
C10_Witness ==
  /\ tiPc = "done"
  /\ \E i, j \in DOMAIN correlated : correlated[i].risk > 600 /\ correlated[j].risk <= 600
  /\ Len(threatTable) < Len(correlated)
  /\ Len(landscape) = 1

\* ------------------------------------------------------------------------
\* IdentityResolver.createUnifiedProfiles
\* ------------------------------------------------------------------------
ProfileAgents == 1..4
\* Bound on the rows of agent_identity_links.
MaxLinks == 3
\* Rows the linking phases write: exact-name rows have a1.id < a2.id, the
\* following-pattern rows come in both orientations.
LinkRows ==
  {r \in [primary_agent_id : ProfileAgents, linked_agent_id : ProfileAgents,
          link_type : {"exact_name_match", "following_pattern"},
          confidence : {255, 285}] :
     /\ r.primary_agent_id # r.linked_agent_id
     /\ r.link_type = "exact_name_match" =>
          (r.confidence = 285 /\ r.primary_agent_id < r.linked_agent_id)
     /\ r.link_type = "following_pattern" => r.confidence = 255}

InitProfiles ==
  /\ links = {}
  /\ profiles = {}
  /\ profilesFresh = FALSE

HasLink(p, l) ==
  \E r \in links : r.primary_agent_id = p /\ r.linked_agent_id = l

\* A linking phase inserts a row for a pair that has none.
InsertLink(row) ==
  /\ Cardinality(links) < MaxLinks
  /\ ~HasLink(row.primary_agent_id, row.linked_agent_id)
  /\ links' = links \cup {row}
  /\ profilesFresh' = FALSE
  /\ UNCHANGED profiles
  /\ UNCHANGED notProfile

\* Base case of agent_clusters: the agents that appear in no link.
ClusterBase ==
  {[root_agent_id |-> a, cluster_id |-> a, depth |-> 0] :
     a \in {b \in ProfileAgents :
              ~\E r \in links : r.primary_agent_id = b \/ r.linked_agent_id = b}}

\* Recursive case, applied to the rows of the previous iteration.
\* linked_agent_id is never null, so COALESCE yields it.
ClusterStep(rows) ==
  {[root_agent_id |-> ac.root_agent_id, cluster_id |-> ail.linked_agent_id,
    depth |-> ac.depth + 1] :
     <<ac, ail>> \in {pr \in rows \X links :
        /\ pr[1].cluster_id = pr[2].primary_agent_id
             \/ pr[1].cluster_id = pr[2].linked_agent_id
        /\ pr[1].depth < 10}}

\* WITH RECURSIVE ... UNION ALL: iterate until an iteration adds no rows.
\* (The aggregates below are all DISTINCT or MIN, so duplicates do not matter.)
RECURSIVE AgentClusters(_, _)
AgentClusters(working, acc) ==
  IF working = {} THEN acc
  ELSE AgentClusters(ClusterStep(working), acc \cup working)

\* GROUP BY CASE WHEN root = cluster THEN root ELSE LEAST(root, cluster) END
GroupKey(row) ==
  IF row.root_agent_id = row.cluster_id THEN row.root_agent_id
  ELSE Min(row.root_agent_id, row.cluster_id)

SetMin(S) == CHOOSE x \in S : \A y \in S : x <= y

ProfileType(size) ==
  IF size >= 5 THEN "network" ELSE IF size >= 3 THEN "multi_account" ELSE "linked"

\* canonical_agents and the SELECT feeding the INSERT.
ProfileRows(clusters) ==
  LET keys == {GroupKey(r) : r \in clusters}
      group(k) == {r \in clusters : GroupKey(r) = k}
      ids(k) == {r.cluster_id : r \in group(k)}
  IN {[primary_agent_id |-> SetMin({r.root_agent_id : r \in group(k)}),
       linked_agent_ids |-> ids(k),
       profile_type |-> ProfileType(Cardinality(ids(k)))] :
        k \in {k2 \in keys : Cardinality(ids(k2)) > 1}}

\* INSERT ... ON CONFLICT (primary_agent_id) DO UPDATE SET linked_agent_ids
Upsert(table, rows) ==
  {t \in table : ~\E r \in rows : r.primary_agent_id = t.primary_agent_id}
  \cup {IF \E t \in table : t.primary_agent_id = r.primary_agent_id
          THEN [(CHOOSE t \in table : t.primary_agent_id = r.primary_agent_id)
                  EXCEPT !.linked_agent_ids = r.linked_agent_ids]
          ELSE r : r \in rows}

\* One call of createUnifiedProfiles; the statement either runs or throws.
CreateUnifiedProfiles ==
  /\ \E ok \in BOOLEAN :
       IF ok
         THEN /\ profiles' = Upsert(profiles, ProfileRows(AgentClusters(ClusterBase, {})))
              /\ profilesFresh' = TRUE
         ELSE UNCHANGED <<profiles, profilesFresh>>
  /\ UNCHANGED links
  /\ UNCHANGED notProfile

NextProfiles == (\E row \in LinkRows : InsertLink(row)) \/ CreateUnifiedProfiles

\* An agent is a member of the profile rows that name it; an agent named by
\* no row stands alone.
Members(row) == {row.primary_agent_id} \cup row.linked_agent_ids
ProfilesOf(a) == {row \in profiles : a \in Members(row)}

\* C2: after createUnifiedProfiles, every agent is in at most one profile
\* row (an agent with no links in none, a singleton), and the two agents of
\* every identity link are members of one common profile row.
C2_ProfilesPartitionAgents ==
  profilesFresh =>
    /\ \A a \in ProfileAgents : Cardinality(ProfilesOf(a)) <= 1
    /\ \A r \in links :
         \E row \in profiles :
           {r.primary_agent_id, r.linked_agent_id} \subseteq Members(row)

\* ------------------------------------------------------------------------
\* IdentityResolver: string helpers
\* ------------------------------------------------------------------------
\* A string is a sequence of one-character strings. A link confidence is
\* an integer number of 1/300: every value the phases compute from the
\* names and bios below is a whole number of them.
ConfidenceUnit == 300

\* String.prototype.toLowerCase on the characters of the model.
ToLowerChar(c) == IF c = "B" THEN "b" ELSE IF c = "R" THEN "r" ELSE c
ToLowerCase(str) == [i \in DOMAIN str |-> ToLowerChar(str[i])]

\* String.prototype.trim
RECURSIVE TrimLeft(_)
TrimLeft(str) ==
  IF str # <<>> /\ Head(str) = " " THEN TrimLeft(Tail(str)) ELSE str
RECURSIVE TrimRight(_)
TrimRight(str) ==
  IF str # <<>> /\ str[Len(str)] = " "
    THEN TrimRight(SubSeq(str, 1, Len(str) - 1)) ELSE str
Trim(str) == TrimRight(TrimLeft(str))

\* Mutant of Min3: the substitution case is left out.
Min3NoSubstitution(a, b, c) == Min(a, b)

Min3(a, b, c) == Min(a, Min(b, c))

\* levenshteinDistance. A row of track is kept as a sequence whose element
\* i + 1 is track[j][i]; TrackRow extends row j from row j - 1 (prev).
RECURSIVE TrackRow(_, _, _, _, _)
TrackRow(s1, s2, j, prev, row) ==
  LET i == Len(row) IN
  IF i > Len(s1) THEN row
  ELSE TrackRow(s1, s2, j, prev,
         Append(row, Min3(row[i] + 1,
                          prev[i + 1] + 1,
                          prev[i] + (IF s1[i] = s2[j] THEN 0 ELSE 1))))
RECURSIVE TrackRows(_, _, _, _)
TrackRows(s1, s2, j, prev) ==
  IF j > Len(s2) THEN prev
  ELSE TrackRows(s1, s2, j + 1, TrackRow(s1, s2, j, prev, <<j>>))
LevenshteinDistance(s1, s2) ==
  TrackRows(s1, s2, 1, [i \in 1..(Len(s1) + 1) |-> i - 1])[Len(s1) + 1]

\* stringSimilarity as the fraction <<numerator, denominator>> it returns:
\* 0, 1.0, or (longer.length - editDistance) / longer.length.
SimilarityFraction(a, b) ==
  IF a = <<>> \/ b = <<>> THEN <<0, 1>>
  ELSE LET s1 == Trim(ToLowerCase(a))
           s2 == Trim(ToLowerCase(b))
           longer == IF Len(s1) > Len(s2) THEN s1 ELSE s2
           shorter == IF Len(s1) > Len(s2) THEN s2 ELSE s1
       IN IF s1 = s2 THEN <<1, 1>>
          ELSE IF Len(longer) = 0 THEN <<1, 1>>
          ELSE <<Len(longer) - LevenshteinDistance(longer, shorter), Len(longer)>>

\* stringSimilarity, in confidence units.
StringSimilarity(a, b) ==
  (SimilarityFraction(a, b)[1] * ConfidenceUnit) \div SimilarityFraction(a, b)[2]

\* extractKeywords: text.toLowerCase().match(/\b\w{4,}\b/g) || [], the
\* maximal runs of word characters that are four or more characters long.
WordChars == {"a", "b", "c", "d", "e", "l", "m", "o", "r", "s", "t", "x"}
RECURSIVE ScanWords(_, _, _, _)
ScanWords(text, k, word, found) ==
  LET kept == IF Len(word) >= 4 THEN found \cup {word} ELSE found IN
  IF k > Len(text) THEN kept
  ELSE IF text[k] \in WordChars THEN ScanWords(text, k + 1, Append(word, text[k]), found)
  ELSE ScanWords(text, k + 1, <<>>, kept)
ExtractKeywords(text) == ScanWords(ToLowerCase(text), 1, <<>>, {})

\* A bio is [isNull, text]; NullBio is SQL NULL.
NullBio == [isNull |-> TRUE, text |-> <<>>]
Bio(text) == [isNull |-> FALSE, text |-> text]

\* bioKeywordMatch, in confidence units.
BioKeywordMatch(bio1, bio2) ==
  IF bio1.isNull \/ bio1.text = <<>> \/ bio2.isNull \/ bio2.text = <<>> THEN 0
  ELSE LET keywords1 == ExtractKeywords(bio1.text)
           keywords2 == ExtractKeywords(bio2.text)
           intersection == Cardinality(keywords1 \cap keywords2)
           union == Cardinality(keywords1 \cup keywords2)
       IN IF union > 0 THEN (intersection * ConfidenceUnit) \div union ELSE 0

\* linkByMetadata: Math.max(bioSimilarity * 0.6, bioMatch). The first
\* operand is rounded down to a whole unit; it is at most 0.6, so a value
\* that passes the 0.65 test is bioMatch and is exact.
MetadataConfidence(bio1, bio2) ==
  Max((StringSimilarity(bio1.text, bio2.text) * 6) \div 10, BioKeywordMatch(bio1, bio2))

\* ------------------------------------------------------------------------
\* IdentityResolver.resolveIdentities
\* ------------------------------------------------------------------------
\* agent_identity_links and agent_relationships are taken to exist with the
\* columns the statements name and the unique key (primary_agent_id,
\* linked_agent_id) that ON CONFLICT names.
AgentIds == 1..3
Platforms == {"moltbook", "twitter"}
AgentNames == {<<"B", "o", "b">>, <<"b", "o", "b">>, <<"b", "o", "b", "s">>, <<"r", "e", "x">>}
FolloweeCounts == {2, 3, 9}
Bios == {NullBio, Bio(<<"c", "o", "d", "e", " ", "b", "o", "t", "s">>)}
\* Bound on the resolveIdentities calls.
MaxRuns == 2
\* Bound on the rows another writer inserts.
MaxOtherWrites == 1
\* Confidence of the row another writer inserts.
OtherConfidence == 285
\* LIMIT 5000 and LIMIT 1000 of the candidate queries, scaled to the three
\* agents of the model: the query returns at most this many of the
\* candidate pairs, and which ones is not defined (no ORDER BY).
FuzzyLimit == 1
MetadataLimit == 1

PairKeys == {k \in AgentIds \X AgentIds : k[1] # k[2]}
Key(row) == <<row.primary_agent_id, row.linked_agent_id>>
LinkRow(k, type, conf) ==
  [primary_agent_id |-> k[1], linked_agent_id |-> k[2], link_type |-> type,
   confidence |-> conf]

InitResolve ==
  /\ agents = [a \in AgentIds |->
                 [name |-> <<"b", "o", "b">>, platform |-> "moltbook",
                  followees |-> 2, bio |-> NullBio]]
  /\ rPc = "idle"
  /\ pairs = {}
  /\ runs = 0
  /\ linksAfter = [r \in 1..MaxRuns |-> {}]
  /\ reached = [r \in 1..MaxRuns |-> FALSE]
  /\ peak = [k \in PairKeys |-> 0]
  /\ otherWrites = 0
  /\ threatAlerts = {}
  /\ resolveThrown = FALSE

\* agents.name is UNIQUE NOT NULL. Platforms are only compared with each
\* other, so agent 1 is put on the first of the two.
InitResolveData ==
  /\ agents \in [AgentIds -> [name : AgentNames, platform : Platforms,
                              followees : FolloweeCounts, bio : Bios]]
  /\ \A a, b \in AgentIds : a # b => agents[a].name # agents[b].name
  /\ agents[1].platform = "moltbook"
  /\ rPc = "idle"
  /\ pairs = {}
  /\ runs = 0
  /\ linksAfter = [r \in 1..MaxRuns |-> {}]
  /\ reached = [r \in 1..MaxRuns |-> FALSE]
  /\ peak = [k \in PairKeys |-> 0]
  /\ otherWrites = 0
  /\ threatAlerts = {}
  /\ resolveThrown = FALSE

\* NOT EXISTS (... primary = a1 AND linked = a2 OR primary = a2 AND linked = a1)
Unlinked(k) == ~HasLink(k[1], k[2]) /\ ~HasLink(k[2], k[1])

StoredConfidence(table, k) ==
  IF \E r \in table : Key(r) = k
    THEN (CHOOSE r \in table : Key(r) = k).confidence ELSE 0
PeakAfter(table) == [k \in PairKeys |-> Max(peak[k], StoredConfidence(table, k))]

\* DO UPDATE SET confidence = GREATEST(EXCLUDED.confidence, $3), where $3
\* is the confidence of the row being inserted.
UpsertNewConfidence(table, row) ==
  IF \E r \in table : Key(r) = Key(row)
    THEN {IF Key(r) = Key(row)
            THEN [r EXCEPT !.confidence = Max(row.confidence, row.confidence)]
            ELSE r : r \in table}
    ELSE table \cup {row}

\* The loop of a phase's transaction over the rows its SELECT returned.
RECURSIVE UpsertAll(_, _)
UpsertAll(table, rows) ==
  IF rows = {} THEN table
  ELSE LET row == CHOOSE r \in rows : \A q \in rows : Key(r)[1] * 10 + Key(r)[2] <= Key(q)[1] * 10 + Key(q)[2]
       IN UpsertAll(UpsertNewConfidence(table, row), rows \ {row})

\* LIMIT n without ORDER BY: any n of the rows, or all if there are fewer.
Limited(S, n) ==
  {T \in SUBSET S : Cardinality(T) = Min(n, Cardinality(S))}

\* The awaits of resolveIdentities, in the order of the try block. Phases 2
\* and 4 each are a SELECT followed by a transaction of writes.
ResolvePhases == <<"exact", "fuzzySelect", "fuzzyWrite", "following", "metaSelect",
                   "metaWrite", "sockPuppets">>

PhaseIndex(p) == CHOOSE i \in DOMAIN ResolvePhases : ResolvePhases[i] = p

\* Mutant of PhaseAfter: the following phase is started right after phase 1.
PhaseAfterSkippingFuzzy(p) ==
  IF p = "exact" THEN "following" ELSE ResolvePhases[PhaseIndex(p) + 1]

\* Each await returns before the next statement of the try block runs.
PhaseAfter(p) == ResolvePhases[PhaseIndex(p) + 1]

\* A statement that throws ends the call: the catch of resolveIdentities
\* logs the error and throws it again, to whoever awaited the call.
ResolveFails ==
  /\ rPc' = "idle"
  /\ pairs' = {}
  /\ resolveThrown' = TRUE
  /\ UNCHANGED <<links, agents, runs, linksAfter, reached, peak, otherWrites, threatAlerts>>

ResolveIdentities ==
  /\ rPc = "idle"
  /\ runs < MaxRuns
  /\ runs' = runs + 1
  /\ rPc' = "exact"
  /\ resolveThrown' = FALSE
  /\ UNCHANGED <<links, agents, pairs, linksAfter, reached, peak, otherWrites, threatAlerts>>
  /\ UNCHANGED notResolve

\* Phase 1, one statement: every unlinked pair a1.id < a2.id on different
\* platforms with LOWER(a1.name) = LOWER(a2.name); the NOT EXISTS filter
\* leaves no row that meets an existing key.
ExactMatchRows ==
  {LinkRow(k, "exact_name_match", 285) : k \in {k2 \in PairKeys :
     /\ k2[1] < k2[2]
     /\ ToLowerCase(agents[k2[1]].name) = ToLowerCase(agents[k2[2]].name)
     /\ agents[k2[1]].platform # agents[k2[2]].platform
     /\ Unlinked(k2)}}

LinkExactMatches ==
  /\ rPc = "exact"
  /\ \E ok \in BOOLEAN :
       IF ok
         THEN /\ links' = links \cup ExactMatchRows
              /\ peak' = PeakAfter(links \cup ExactMatchRows)
              /\ rPc' = PhaseAfter("exact")
              /\ UNCHANGED <<agents, pairs, runs, linksAfter, reached, otherWrites, threatAlerts, resolveThrown>>
         ELSE ResolveFails
  /\ UNCHANGED notResolve

\* Phase 2, the SELECT.
FuzzyCandidates ==
  {k \in PairKeys : /\ k[1] < k[2]
                    /\ agents[k[1]].platform # agents[k[2]].platform
                    /\ Unlinked(k)}

LinkFuzzySelect ==
  /\ rPc = "fuzzySelect"
  /\ \E ok \in BOOLEAN :
       IF ok
         THEN /\ \E rows \in Limited(FuzzyCandidates, FuzzyLimit) : pairs' = rows
              /\ rPc' = PhaseAfter("fuzzySelect")
              /\ UNCHANGED <<links, agents, runs, linksAfter, reached, peak, otherWrites, threatAlerts, resolveThrown>>
         ELSE ResolveFails
  /\ UNCHANGED notResolve

\* Phase 2, the transaction: similarity >= this.similarityThreshold (0.75).
FuzzyRows ==
  {LinkRow(k, "fuzzy_name_match", StringSimilarity(agents[k[1]].name, agents[k[2]].name)) :
     k \in {k2 \in pairs :
              StringSimilarity(agents[k2[1]].name, agents[k2[2]].name) * 100
                >= 75 * ConfidenceUnit}}

LinkFuzzyWrite ==
  /\ rPc = "fuzzyWrite"
  /\ \E ok \in BOOLEAN :
       IF ok
         THEN /\ links' = UpsertAll(links, FuzzyRows)
              /\ peak' = PeakAfter(UpsertAll(links, FuzzyRows))
              /\ rPc' = PhaseAfter("fuzzyWrite")
              /\ pairs' = {}
              /\ UNCHANGED <<agents, runs, linksAfter, reached, otherWrites, threatAlerts, resolveThrown>>
         ELSE ResolveFails
  /\ UNCHANGED notResolve

\* Phase 3, one statement: a row per ordered unlinked pair on different
\* platforms whose first agent follows at least 3 agents; a plain INSERT.
FollowingRows ==
  {LinkRow(k, "following_pattern", Min(255, agents[k[1]].followees * 30)) :
     k \in {k2 \in PairKeys : /\ agents[k2[1]].platform # agents[k2[2]].platform
                              /\ Unlinked(k2)
                              /\ agents[k2[1]].followees >= 3}}

LinkByFollowingRelationships ==
  /\ rPc = "following"
  /\ \E ok \in BOOLEAN :
       IF ok
         THEN /\ links' = links \cup FollowingRows
              /\ peak' = PeakAfter(links \cup FollowingRows)
              /\ rPc' = PhaseAfter("following")
              /\ UNCHANGED <<agents, pairs, runs, linksAfter, reached, otherWrites, threatAlerts, resolveThrown>>
         ELSE ResolveFails
  /\ UNCHANGED notResolve

\* Phase 4, the SELECT.
MetadataCandidates ==
  {k \in PairKeys : /\ k[1] < k[2]
                    /\ agents[k[1]].platform # agents[k[2]].platform
                    /\ ~agents[k[1]].bio.isNull /\ ~agents[k[2]].bio.isNull
                    /\ Unlinked(k)}

LinkMetadataSelect ==
  /\ rPc = "metaSelect"
  /\ \E ok \in BOOLEAN :
       IF ok
         THEN /\ \E rows \in Limited(MetadataCandidates, MetadataLimit) : pairs' = rows
              /\ rPc' = PhaseAfter("metaSelect")
              /\ UNCHANGED <<links, agents, runs, linksAfter, reached, peak, otherWrites, threatAlerts, resolveThrown>>
         ELSE ResolveFails
  /\ UNCHANGED notResolve

\* Phase 4, the transaction: confidence > 0.65.
MetadataRows ==
  {LinkRow(k, "bio_metadata_match", MetadataConfidence(agents[k[1]].bio, agents[k[2]].bio)) :
     k \in {k2 \in pairs :
              MetadataConfidence(agents[k2[1]].bio, agents[k2[2]].bio) * 100
                > 65 * ConfidenceUnit}}

LinkMetadataWrite ==
  /\ rPc = "metaWrite"
  /\ \E ok \in BOOLEAN :
       IF ok
         THEN /\ links' = UpsertAll(links, MetadataRows)
              /\ peak' = PeakAfter(UpsertAll(links, MetadataRows))
              /\ rPc' = PhaseAfter("metaWrite")
              /\ pairs' = {}
              /\ UNCHANGED <<agents, runs, linksAfter, reached, otherWrites, threatAlerts, resolveThrown>>
         ELSE ResolveFails
  /\ UNCHANGED notResolve

\* Phase 5: the statement groups by an expression that holds an aggregate
\* and a window function, which the store rejects; the call ends here with
\* the links of phases 1 to 4 committed, and createUnifiedProfiles is not
\* reached.
DetectSockPuppets ==
  /\ rPc = "sockPuppets"
  /\ rPc' = "idle"
  /\ reached' = [reached EXCEPT ![runs] = TRUE]
  /\ linksAfter' = [linksAfter EXCEPT ![runs] = links]
  /\ resolveThrown' = TRUE
  /\ UNCHANGED <<links, agents, pairs, runs, peak, otherWrites, threatAlerts>>
  /\ UNCHANGED notResolve

\* Another writer inserts a row for a pair the phase has selected, between
\* the phase's SELECT and its transaction.
OtherWriterInsert ==
  /\ rPc \in {"fuzzyWrite", "metaWrite"}
  /\ otherWrites < MaxOtherWrites
  /\ \E k \in pairs :
       /\ ~HasLink(k[1], k[2])
       /\ links' = links \cup {LinkRow(k, "other", OtherConfidence)}
       /\ peak' = PeakAfter(links \cup {LinkRow(k, "other", OtherConfidence)})
  /\ otherWrites' = otherWrites + 1
  /\ UNCHANGED <<agents, rPc, pairs, runs, linksAfter, reached, threatAlerts, resolveThrown>>
  /\ UNCHANGED notResolve

NextResolve ==
  \/ ResolveIdentities
  \/ LinkExactMatches
  \/ LinkFuzzySelect
  \/ LinkFuzzyWrite
  \/ LinkByFollowingRelationships
  \/ LinkMetadataSelect
  \/ LinkMetadataWrite
  \/ DetectSockPuppets
  \/ OtherWriterInsert

\* created_at of the agents, in seconds: all three within one hour.
CreatedAt == [a \in AgentIds |-> a * 600]

\* The agents the statement of phase 5 selects: in a link with
\* confidence >= 0.7.
ConfidentlyLinked ==
  {a \in AgentIds : \E r \in links :
     r.confidence * 10 >= 7 * ConfidenceUnit /\ a \in {r.primary_agent_id, r.linked_agent_id}}

\* C16: once a call has passed phase 5 with three agents linked with
\* confidence >= 0.7 and created within one hour, a sock_puppet_network
\* alert of severity medium has been written.
C16_SockPuppetsFlagged ==
  (/\ rPc = "idle" /\ runs >= 1 /\ reached[runs]
   /\ Cardinality(ConfidentlyLinked) >= 3
   /\ \A a, b \in ConfidentlyLinked : CreatedAt[a] - CreatedAt[b] < 3600) =>
    \E t \in threatAlerts :
      t.alert_type = "sock_puppet_network" /\ t.severity = "medium"

\* C18: an error inside a resolveIdentities call is caught at the entry
\* point and never reaches the caller of the call.
C18_ErrorStopsAtEntryPoint == ~resolveThrown

C23_OneLinkPerPair ==
  \A r1, r2 \in links :
    {r1.primary_agent_id, r1.linked_agent_id} = {r2.primary_agent_id, r2.linked_agent_id}
      => r1 = r2

\* C3: the stored confidence of a link is never below a confidence stored
\* for the same pair earlier, whatever the phases and another writer wrote.
C3_ConfidenceNeverDecreases ==
  \A r \in links : r.confidence >= peak[Key(r)]

\* C4: when two calls in a row both finished their linking phases and no
\* other writer wrote, the links and confidences after the second call are
\* those after the first.
C4_SecondRunChangesNothing ==
  (reached[1] /\ reached[2] /\ otherWrites = 0) => linksAfter[2] = linksAfter[1]

\* ------------------------------------------------------------------------
\* ReputationEngine: the score expressions
\* ------------------------------------------------------------------------
\* One agent. Its posts enter through the aggregates the statements take of
\* them, its account through whole days. A stored score is an integer
\* number of 1/20 point; the inputs below give every sub-score a whole
\* number of points, so the weighted sum is exact.
ScoreUnit == 20

RepPlatforms == {"moltbook", "moltx", "unified"}
\* agent_metrics row for moltbook: absent, negative karma, large karma.
KarmaRows ==
  {[hasRow |-> FALSE, reputation_score |-> 0],
   [hasRow |-> TRUE, reputation_score |-> 0 - 2000],
   [hasRow |-> TRUE, reputation_score |-> 4000]}
\* Aggregates of the agent's posts: none, a few, many.
PostProfiles ==
  {[count |-> 0, avgUpvotes |-> 0, avgComments |-> 0, spanDays |-> 0, activeDays |-> 0,
    positivePct |-> 0, negativePct |-> 0, avgLength |-> 0, stddevPct |-> 0],
   [count |-> 6, avgUpvotes |-> 50, avgComments |-> 10, spanDays |-> 8, activeDays |-> 6,
    positivePct |-> 100, negativePct |-> 0, avgLength |-> 60, stddevPct |-> 0],
   [count |-> 501, avgUpvotes |-> 500, avgComments |-> 100, spanDays |-> 31, activeDays |-> 31,
    positivePct |-> 60, negativePct |-> 40, avgLength |-> 600, stddevPct |-> 49]}
NoPosts == CHOOSE pp \in PostProfiles : pp.count = 0
PostPlatforms == {"moltbook", "4claw"}
\* agent_metrics row for moltx: absent, small with a negative counter, large.
MoltxRows ==
  {[hasRow |-> FALSE, followers |-> 0, avg_engagement_rate |-> 0, posts_count |-> 0,
    influence_score |-> 0],
   [hasRow |-> TRUE, followers |-> 50, avg_engagement_rate |-> 2, posts_count |-> 21,
    influence_score |-> 0 - 5],
   [hasRow |-> TRUE, followers |-> 20000, avg_engagement_rate |-> 20, posts_count |-> 2000,
    influence_score |-> 50]}
\* threat_alerts of the last 90 days by severity.
AlertCounts ==
  {[critical |-> 0, high |-> 0, medium |-> 0, low |-> 0],
   [critical |-> 0, high |-> 0, medium |-> 1, low |-> 0],
   [critical |-> 2, high |-> 1, medium |-> 0, low |-> 1]}
\* Days since first_seen, between first_seen and last_seen, since last_seen.
AccountAges ==
  {[ageDays |-> 0, spanDays |-> 0, sinceDays |-> 0],
   [ageDays |-> 100, spanDays |-> 30, sinceDays |-> 60],
   [ageDays |-> 400, spanDays |-> 390, sinceDays |-> 3]}

RepInputs ==
  [platform : RepPlatforms, karma : KarmaRows, posts : PostProfiles,
   postPlatform : PostPlatforms, moltx : MoltxRows, alerts : AlertCounts,
   age : AccountAges]

\* The posts of the agent on one platform.
PostsOn(in, platform) == IF in.postPlatform = platform THEN in.posts ELSE NoPosts

\* Mutant of Clamp: the expression is stored as computed.
ClampNone(x) == x

\* LEAST(100, GREATEST(0, x)) on a value in score units.
Clamp(x) == Min(100 * ScoreUnit, Max(0, x))

\* LEAST(hi, GREATEST(0, x))
Capped(hi, x) == Min(hi, Max(0, x))

\* Karma base: (COALESCE(NULLIF(am.reputation_score, 0), 0) / 1000) * 30,
\* with no LEAST or GREATEST around it.
KarmaTerm(in) == (in.karma.reputation_score \div 1000) * 30

MoltbookPoints(in) ==
  LET p == PostsOn(in, "moltbook") IN
  KarmaTerm(in)
  + (IF p.count > 100 THEN 30 ELSE IF p.count > 50 THEN 25 ELSE IF p.count > 20 THEN 20
     ELSE IF p.count > 5 THEN 10 ELSE 0)
  + Capped(25, p.avgUpvotes \div 5)
  + (IF p.spanDays > 30 THEN 15 ELSE IF p.spanDays > 7 THEN 10
     ELSE IF p.spanDays > 1 THEN 5 ELSE 0)

MoltxPoints(in) ==
  LET am == in.moltx IN
  (IF am.followers > 10000 THEN 40 ELSE IF am.followers > 5000 THEN 35
   ELSE IF am.followers > 1000 THEN 30 ELSE IF am.followers > 100 THEN 20
   ELSE IF am.followers > 0 THEN 10 ELSE 0)
  + Capped(35, (am.avg_engagement_rate * 35) \div 10)
  + (IF am.posts_count > 1000 THEN 15 ELSE IF am.posts_count > 500 THEN 12
     ELSE IF am.posts_count > 100 THEN 10 ELSE IF am.posts_count > 20 THEN 5 ELSE 0)
  + Capped(10, am.influence_score)

FourclawPoints(in) ==
  LET p == PostsOn(in, "4claw") IN
  (IF p.count > 500 THEN 40 ELSE IF p.count > 100 THEN 35 ELSE IF p.count > 20 THEN 25
   ELSE IF p.count > 0 THEN 10 ELSE 0)
  + Capped(30, (p.avgUpvotes + p.avgComments) \div 2)
  + (IF p.positivePct > 70 THEN 20 ELSE IF p.positivePct > 50 THEN 15
     ELSE IF p.negativePct > 50 THEN 0 ELSE 10)
  + (IF p.activeDays > 30 THEN 10 ELSE IF p.activeDays > 10 THEN 7 ELSE 0)

\* All posts of the agent are on one platform: COUNT(DISTINCT p.platform) = 1.
EngagementPoints(in) ==
  LET p == in.posts
      platformCount == 1
  IN
  (IF p.avgLength > 500 THEN 25 ELSE IF p.avgLength > 200 THEN 20
   ELSE IF p.avgLength > 50 THEN 15 ELSE 5)
  + Capped(35, (p.avgUpvotes + p.avgComments) * 2)
  + (IF platformCount >= 3 THEN 20 ELSE IF platformCount = 2 THEN 10 ELSE 0)
  + (IF p.stddevPct < 30 THEN 20 ELSE IF p.stddevPct < 40 THEN 10 ELSE 0)

SecurityPoints(in) ==
  LET ta == in.alerts
      total == ta.critical + ta.high + ta.medium + ta.low
      worst == IF ta.medium + ta.low > 0 THEN 40 ELSE IF ta.high > 0 THEN 20 ELSE 0
  IN (IF total = 0 THEN 100 ELSE worst)
     - ta.critical * 30 - ta.high * 15 - ta.medium * 5

\* A ratio with a zero account age is NULL and no WHEN matches it.
LongevityPoints(in) ==
  LET g == in.age IN
  (IF g.ageDays > 365 THEN 40 ELSE IF g.ageDays > 180 THEN 30
   ELSE IF g.ageDays > 60 THEN 20 ELSE IF g.ageDays > 30 THEN 10 ELSE 0)
  + (IF g.ageDays = 0 THEN 0
     ELSE IF g.spanDays * 10 > 8 * g.ageDays THEN 30
     ELSE IF g.spanDays * 10 > 5 * g.ageDays THEN 20
     ELSE IF g.spanDays * 10 > 2 * g.ageDays THEN 10 ELSE 0)
  + (IF g.sinceDays < 7 THEN 30 ELSE IF g.sinceDays < 14 THEN 25
     ELSE IF g.sinceDays < 30 THEN 20 ELSE IF g.sinceDays < 90 THEN 10 ELSE 0)

\* ------------------------------------------------------------------------
\* ReputationEngine.calculateReputation
\* ------------------------------------------------------------------------
\* agent_reputation_scores is taken to exist with the unique key
\* (agent_id, platform) that ON CONFLICT names and a score column that
\* holds the computed value as it is.
Categories ==
  {"moltbook", "moltx", "4claw", "engagement_quality", "security_record", "longevity",
   "composite"}
SubScores == Categories \ {"composite"}
\* Bound on the calculateReputation calls.
MaxRepRuns == 2

NoRow == [present |-> FALSE, score |-> 0]
Row(x) == [present |-> TRUE, score |-> x]
NoBreakdown ==
  [moltbook |-> 0, moltx |-> 0, fourclaw |-> 0, engagement_quality |-> 0,
   security |-> 0, longevity |-> 0]

\* this.weights of the constructor, in hundredths.
weights ==
  [moltbook_activity |-> 20, moltx_influence |-> 20, engagement_quality |-> 25,
   security_record |-> 20, longevity |-> 15]

InitRep ==
  /\ repInput = [platform |-> "moltbook",
                 karma |-> [hasRow |-> FALSE, reputation_score |-> 0],
                 posts |-> NoPosts, postPlatform |-> "moltbook",
                 moltx |-> [hasRow |-> FALSE, followers |-> 0, avg_engagement_rate |-> 0,
                            posts_count |-> 0, influence_score |-> 0],
                 alerts |-> [critical |-> 0, high |-> 0, medium |-> 0, low |-> 0],
                 age |-> [ageDays |-> 0, spanDays |-> 0, sinceDays |-> 0]]
  /\ repPc = "idle"
  /\ repRuns = 0
  /\ scores = [c \in Categories |-> NoRow]
  /\ breakdown = NoBreakdown
  /\ computed = {}
  /\ failedPhase = "none"
  /\ repThrown = FALSE
  /\ scoresAfter = [r \in 1..MaxRepRuns |-> [c \in Categories |-> NoRow]]
  /\ leaderboards = 0

InitRepData ==
  /\ repInput \in RepInputs
  /\ repPc = "idle"
  /\ repRuns = 0
  /\ scores = [c \in Categories |-> NoRow]
  /\ breakdown = NoBreakdown
  /\ computed = {}
  /\ failedPhase = "none"
  /\ repThrown = FALSE
  /\ scoresAfter = [r \in 1..MaxRepRuns |-> [c \in Categories |-> NoRow]]
  /\ leaderboards = 0

CalculateReputation ==
  /\ repPc = "idle"
  /\ repRuns < MaxRepRuns
  /\ repRuns' = repRuns + 1
  /\ repPc' = "moltbook"
  /\ computed' = {}
  /\ failedPhase' = "none"
  /\ repThrown' = FALSE
  /\ UNCHANGED <<repInput, scores, breakdown, scoresAfter, leaderboards>>
  /\ UNCHANGED notRep

\* The statement of a phase threw: the catch block logs and rethrows, the
\* later phases of the call are not run.
RepFails(phase) ==
  /\ failedPhase' = phase
  /\ repThrown' = TRUE
  /\ repPc' = "idle"
  /\ scoresAfter' = [scoresAfter EXCEPT ![repRuns] = scores]
  /\ UNCHANGED <<repInput, repRuns, scores, breakdown, computed, leaderboards>>

\* A phase whose statement upserts the row of one category, or no row when
\* the agent is outside its WHERE or HAVING clause.
ScorePhase(phase, next, writes, value) ==
  /\ \E ok \in BOOLEAN :
       IF ok
         THEN /\ scores' = IF writes THEN [scores EXCEPT ![phase] = Row(value)] ELSE scores
              /\ computed' = computed \cup {phase}
              /\ repPc' = next
              /\ UNCHANGED <<repInput, repRuns, breakdown, failedPhase, repThrown,
                             scoresAfter, leaderboards>>
         ELSE RepFails(phase)
  /\ UNCHANGED notRep

CalculateMoltbookScore ==
  /\ repPc = "moltbook"
  /\ ScorePhase("moltbook", "moltx", repInput.platform \in {"moltbook", "unified"},
                Clamp(MoltbookPoints(repInput) * ScoreUnit))

CalculateMoltxScore ==
  /\ repPc = "moltx"
  /\ ScorePhase("moltx", "4claw", repInput.platform \in {"moltx", "unified"},
                Clamp(MoltxPoints(repInput) * ScoreUnit))

Calculate4clawScore ==
  /\ repPc = "4claw"
  /\ ScorePhase("4claw", "engagement_quality", TRUE,
                Clamp(FourclawPoints(repInput) * ScoreUnit))

CalculateEngagementQuality ==
  /\ repPc = "engagement_quality"
  /\ ScorePhase("engagement_quality", "security_record", repInput.posts.count > 0,
                Clamp(EngagementPoints(repInput) * ScoreUnit))

CalculateSecurityScore ==
  /\ repPc = "security_record"
  /\ ScorePhase("security_record", "longevity", TRUE,
                Clamp(SecurityPoints(repInput) * ScoreUnit))

CalculateLongevityScore ==
  /\ repPc = "longevity"
  /\ ScorePhase("longevity", "composite", TRUE,
                Clamp(LongevityPoints(repInput) * ScoreUnit))

\* COALESCE(x.score, 0) of the sub-score rows, the composite's factor_breakdown.
Factors(table) ==
  [moltbook |-> table["moltbook"].score, moltx |-> table["moltx"].score,
   fourclaw |-> table["4claw"].score,
   engagement_quality |-> table["engagement_quality"].score,
   security |-> table["security_record"].score, longevity |-> table["longevity"].score]

\* Mutant of WeightedSum: the weights of the constructor, which has none
\* for 4claw.
WeightedSumDeclared(f) ==
  (f.moltbook * weights.moltbook_activity + f.moltx * weights.moltx_influence
   + f.engagement_quality * weights.engagement_quality
   + f.security * weights.security_record + f.longevity * weights.longevity) \div 100

\* The sum of the statement, with its literal coefficients.
WeightedSum(f) ==
  (f.moltbook * 20 + f.moltx * 20 + f.fourclaw * 10 + f.engagement_quality * 25
   + f.security * 20 + f.longevity * 5) \div 100

\* The chain of FULL OUTER JOINs gives one row for an agent with a row in
\* any sub-score category.
CalculateCompositeScore ==
  /\ repPc = "composite"
  /\ \E ok \in BOOLEAN :
       IF ok
         THEN /\ IF \E c \in SubScores : scores[c].present
                   THEN /\ scores' = [scores EXCEPT
                                        !["composite"] = Row(Clamp(WeightedSum(Factors(scores))))]
                        /\ breakdown' = Factors(scores)
                   ELSE UNCHANGED <<scores, breakdown>>
              /\ computed' = computed \cup {"composite"}
              /\ repPc' = "leaderboards"
              /\ UNCHANGED <<repInput, repRuns, failedPhase, repThrown, scoresAfter,
                             leaderboards>>
         ELSE RepFails("composite")
  /\ UNCHANGED notRep

\* The SELECT of the top 100 and the INSERT of the snapshot.
GenerateLeaderboards ==
  /\ repPc = "leaderboards"
  /\ \E ok \in BOOLEAN :
       IF ok
         THEN /\ leaderboards' = leaderboards + 1
              /\ computed' = computed \cup {"leaderboards"}
              /\ repPc' = "stats"
              /\ UNCHANGED <<repInput, repRuns, scores, breakdown, failedPhase, repThrown,
                             scoresAfter>>
         ELSE RepFails("leaderboards")
  /\ UNCHANGED notRep

\* return await this.getReputationStats()
GetReputationStats ==
  /\ repPc = "stats"
  /\ \E ok \in BOOLEAN :
       IF ok
         THEN /\ repPc' = "idle"
              /\ computed' = computed \cup {"stats"}
              /\ scoresAfter' = [scoresAfter EXCEPT ![repRuns] = scores]
              /\ UNCHANGED <<repInput, repRuns, scores, breakdown, failedPhase, repThrown,
                             leaderboards>>
         ELSE RepFails("stats")
  /\ UNCHANGED notRep

NextRep ==
  \/ CalculateReputation
  \/ CalculateMoltbookScore
  \/ CalculateMoltxScore
  \/ Calculate4clawScore
  \/ CalculateEngagementQuality
  \/ CalculateSecurityScore
  \/ CalculateLongevityScore
  \/ CalculateCompositeScore
  \/ GenerateLeaderboards
  \/ GetReputationStats

\* C11: every score in agent_reputation_scores, of every category, lies in
\* [0, 100].
C11_ScoresInRange ==
  \A c \in Categories :
    scores[c].present => (scores[c].score >= 0 /\ scores[c].score <= 100 * ScoreUnit)

\* A negative karma and a record of critical alerts have been scored, and
\* the composite has been written.
C11_Witness ==
  /\ scores["moltbook"].present /\ repInput.karma.reputation_score < 0
  /\ scores["security_record"].present /\ repInput.alerts.critical = 2
  /\ repInput.moltx.followers = 20000
  /\ scores["composite"].present

\* C26: in a moltbook score that has been computed, the karma term is
\* within its band of 0 to 30 points.
C26_KarmaTermInBand ==
  ("moltbook" \in computed /\ scores["moltbook"].present) =>
    (KarmaTerm(repInput) >= 0 /\ KarmaTerm(repInput) <= 30)

\* The composite restated from the stored breakdown with the weights
\* 0.20, 0.20, 0.10, 0.25, 0.20, 0.05.
Reconstructed ==
  Min(2000, Max(0,
    (20 * breakdown.moltbook + 20 * breakdown.moltx + 10 * breakdown.fourclaw
     + 25 * breakdown.engagement_quality + 20 * breakdown.security
     + 5 * breakdown.longevity) \div 100))

BreakdownMatchesRows ==
  /\ breakdown.moltbook = (IF scores["moltbook"].present THEN scores["moltbook"].score ELSE 0)
  /\ breakdown.moltx = (IF scores["moltx"].present THEN scores["moltx"].score ELSE 0)
  /\ breakdown.fourclaw = (IF scores["4claw"].present THEN scores["4claw"].score ELSE 0)
  /\ breakdown.engagement_quality =
       (IF scores["engagement_quality"].present
          THEN scores["engagement_quality"].score ELSE 0)
  /\ breakdown.security =
       (IF scores["security_record"].present THEN scores["security_record"].score ELSE 0)
  /\ breakdown.longevity = (IF scores["longevity"].present THEN scores["longevity"].score ELSE 0)

\* C12 as stated: the composite is the clamped weighted sum of the stored
\* breakdown under the weights 0.20/0.20/0.10/0.25/0.20/0.05, a missing
\* sub-score counting 0, and the weights the constructor declares are the
\* ones applied: the declared weights give the same value.
C12_DeclaredWeightsApplied ==
  scores["composite"].present =>
    /\ BreakdownMatchesRows
    /\ scores["composite"].score = Reconstructed
    /\ scores["composite"].score = Min(2000, Max(0, WeightedSumDeclared(breakdown)))

\* C12, corrected: the composite is the clamped weighted sum of the stored
\* breakdown under the weights 0.20/0.20/0.10/0.25/0.20/0.05, a missing
\* sub-score counting 0; the weights of the constructor (longevity 0.15,
\* none for 4claw) are not the ones applied.
C12_CompositeIsWeightedSum ==
  scores["composite"].present =>
    /\ BreakdownMatchesRows
    /\ scores["composite"].score = Reconstructed

\* A composite over a missing sub-score and a longevity score above 0.
C12_Witness ==
  /\ scores["composite"].present
  /\ ~scores["moltx"].present
  /\ scores["longevity"].score > 0
  /\ scores["4claw"].score > 0
  /\ scores["composite"].score > 0

SubScorePhases == SubScores

\* C13: when the computation of one sub-score fails in a call, the other
\* sub-scores and the composite have been computed by the time the call
\* ends.
C13_FailureDoesNotAbort ==
  (repPc = "idle" /\ failedPhase \in SubScorePhases) =>
    (SubScorePhases \ {failedPhase}) \cup {"composite"} \subseteq computed

\* ------------------------------------------------------------------------
\* IdentityResolver.stringSimilarity and levenshteinDistance as functions
\* ------------------------------------------------------------------------
Alphabet == {"a", "b", "B", " "}
\* Bound on the length of the argument strings.
MaxStringLen == 2
Kitten == <<"k", "i", "t", "t", "e", "n">>
Sitting == <<"s", "i", "t", "t", "i", "n", "g">>
Strings == UNION {[1..n -> Alphabet] : n \in 0..MaxStringLen} \cup {Kitten, Sitting}

NotCalled == [done |-> FALSE, value |-> <<0, 1>>]

InitStrings ==
  /\ str1 = <<>>
  /\ str2 = <<>>
  /\ similarity = NotCalled
  /\ distance = NotCalled

InitStringsData ==
  /\ str1 \in Strings
  /\ str2 \in Strings
  /\ similarity = NotCalled
  /\ distance = NotCalled

StringSimilarityCall ==
  /\ ~similarity.done
  /\ similarity' = [done |-> TRUE, value |-> SimilarityFraction(str1, str2)]
  /\ UNCHANGED <<str1, str2, distance>>
  /\ UNCHANGED notString

LevenshteinDistanceCall ==
  /\ ~distance.done
  /\ distance' = [done |-> TRUE, value |-> <<LevenshteinDistance(str1, str2), 1>>]
  /\ UNCHANGED <<str1, str2, similarity>>
  /\ UNCHANGED notString

NextStrings == StringSimilarityCall \/ LevenshteinDistanceCall

\* The edit distance by its recursive definition.
RECURSIVE EditDistance(_, _)
EditDistance(s, t) ==
  IF s = <<>> THEN Len(t)
  ELSE IF t = <<>> THEN Len(s)
  ELSE IF Head(s) = Head(t) THEN EditDistance(Tail(s), Tail(t))
  ELSE 1 + Min(EditDistance(Tail(s), Tail(t)),
               Min(EditDistance(Tail(s), t), EditDistance(s, Tail(t))))

\* The fraction f equals 1 - EditDistance(s, t) / max(|s|, |t|), with 1 for
\* equal strings and 0 when either string is empty.
IsNormalizedDistance(f, s, t) ==
  IF s = <<>> \/ t = <<>> THEN f[1] = 0
  ELSE IF s = t THEN f[1] = f[2]
  ELSE f[1] * Max(Len(s), Len(t)) = (Max(Len(s), Len(t)) - EditDistance(s, t)) * f[2]

\* Lower case and without the blanks at either end, written apart from the
\* operators of the model.
Folded(s) ==
  LET lower == [i \in DOMAIN s |-> IF s[i] = "B" THEN "b" ELSE s[i]]
      solid == {i \in DOMAIN s : s[i] # " "}
  IN IF solid = {} THEN <<>>
     ELSE SubSeq(lower, CHOOSE i \in solid : \A j \in solid : i <= j,
                        CHOOSE i \in solid : \A j \in solid : i >= j)

\* C14 as stated: stringSimilarity(a, b) is 1 - levenshtein(a, b) /
\* max(|a|, |b|) on the strings as given, 1.0 for identical strings, 0.0
\* when either is empty, and levenshteinDistance is the edit distance.
C14_SimilarityOfGivenStrings ==
  /\ similarity.done => IsNormalizedDistance(similarity.value, str1, str2)
  /\ distance.done => distance.value[1] = EditDistance(str1, str2)

\* C14, corrected: stringSimilarity(a, b) is 0.0 when either string is
\* empty; otherwise it is 1 - levenshtein(a', b') / max(|a'|, |b'|) on the
\* strings a', b' in lower case with the surrounding blanks removed, with
\* 1.0 when a' = b'; levenshteinDistance is the edit distance.
C14_SimilarityOfFoldedStrings ==
  /\ similarity.done =>
       IF str1 = <<>> \/ str2 = <<>> THEN similarity.value[1] = 0
       ELSE IF Folded(str1) = Folded(str2) THEN similarity.value = <<1, 1>>
       ELSE IsNormalizedDistance(similarity.value, Folded(str1), Folded(str2))
  /\ distance.done => distance.value[1] = EditDistance(str1, str2)

\* "kitten" and "sitting": distance 3, similarity 4/7.
C14_Witness ==
  /\ str1 = Kitten /\ str2 = Sitting
  /\ similarity.done /\ similarity.value = <<4, 7>>
  /\ distance.done /\ distance.value[1] = 3

\* ------------------------------------------------------------------------
\* The agents table (initializeSchema) and linkExactMatches over it
\* ------------------------------------------------------------------------
\* Bound on the accounts that arrive.
MaxOffered == 3
Accounts ==
  [name : {<<"b", "o", "b">>, <<"B", "o", "b">>, <<"r", "e", "x">>}, platform : Platforms]

InitIngest ==
  /\ offered = <<>>
  /\ nextOffer = 1
  /\ agentRows = <<>>
  /\ exactLinks = {}
  /\ ingestPc = "ingest"

InitIngestData ==
  /\ offered \in [1..MaxOffered -> Accounts]
  /\ nextOffer = 1
  /\ agentRows = <<>>
  /\ exactLinks = {}
  /\ ingestPc = "ingest"

\* name VARCHAR(255) UNIQUE NOT NULL: an INSERT of a name the table holds is
\* rejected, whatever the platform of the new row.
NameTaken(name) == \E i \in DOMAIN agentRows : agentRows[i].name = name

StoreAgent ==
  /\ ingestPc = "ingest"
  /\ nextOffer <= Len(offered)
  /\ agentRows' = IF NameTaken(offered[nextOffer].name) THEN agentRows
                  ELSE Append(agentRows, offered[nextOffer])
  /\ nextOffer' = nextOffer + 1
  /\ UNCHANGED <<offered, exactLinks, ingestPc>>
  /\ UNCHANGED notIngest

\* The rows of the phase 1 statement over the agents rows and the link table.
ExactRowsOf(rows, table) ==
  {[primary_agent_id |-> k[1], linked_agent_id |-> k[2],
    link_type |-> "exact_name_match", confidence |-> 285] :
     k \in {k2 \in (DOMAIN rows) \X (DOMAIN rows) :
       /\ k2[1] < k2[2]
       /\ ToLowerCase(rows[k2[1]].name) = ToLowerCase(rows[k2[2]].name)
       /\ rows[k2[1]].platform # rows[k2[2]].platform
       /\ ~\E r \in table :
            \/ r.primary_agent_id = k2[1] /\ r.linked_agent_id = k2[2]
            \/ r.primary_agent_id = k2[2] /\ r.linked_agent_id = k2[1]}}

\* linkExactMatches once every account has arrived.
LinkExactOverRows ==
  /\ ingestPc = "ingest"
  /\ nextOffer > Len(offered)
  /\ exactLinks' = exactLinks \cup ExactRowsOf(agentRows, exactLinks)
  /\ ingestPc' = "resolved"
  /\ UNCHANGED <<offered, nextOffer, agentRows>>
  /\ UNCHANGED notIngest

NextIngest == StoreAgent \/ LinkExactOverRows

\* The ids of the agents rows that hold an account.
AgentsOf(account) ==
  {i \in DOMAIN agentRows :
     agentRows[i].name = account.name /\ agentRows[i].platform = account.platform}

\* C15: after resolution, any two observed accounts on different platforms
\* whose names are equal ignoring case are agents joined by a link of type
\* exact_name_match with confidence 0.95.
C15_EqualNamesAreLinked ==
  ingestPc = "resolved" =>
    \A i, j \in DOMAIN offered :
      (/\ offered[i].platform # offered[j].platform
       /\ ToLowerCase(offered[i].name) = ToLowerCase(offered[j].name)) =>
        \E a \in AgentsOf(offered[i]), b \in AgentsOf(offered[j]) :
          \E r \in exactLinks :
            /\ {r.primary_agent_id, r.linked_agent_id} = {a, b}
            /\ r.link_type = "exact_name_match"
            /\ r.confidence = 285

\* ------------------------------------------------------------------------
\* NetworkAnalyzer.analyze: its six awaited steps, the snapshot it stores
\* and the analytics endpoint that serves the snapshots
\* ------------------------------------------------------------------------
MaxNetRuns == 2
MaxNodes == 2

\* interactions = { nodes, edges }, kept here by the two array lengths;
\* edges join pairs of nodes
Networks ==
  {w \in [nodes : 0..MaxNodes, edges : 0..MaxNodes] :
     2 * w.edges <= w.nodes * (w.nodes - 1)}

\* the catch of buildInteractionNetwork: return { nodes: [], edges: [] }
EmptyNetwork == [nodes |-> 0, edges |-> 0]

NoCache == [hit |-> FALSE, rows |-> <<>>]

InitSnapshot ==
  /\ netPc = "idle"
  /\ netRuns = 0
  /\ interactions = EmptyNetwork
  /\ buildThrew = FALSE
  /\ netSnapshots = <<>>
  /\ analyticsCache = NoCache
  /\ analytics = <<>>
  /\ netThrown = FALSE

\* analyze() is entered: the try block starts with the build.
Analyze ==
  /\ netPc = "idle"
  /\ netRuns < MaxNetRuns
  /\ netRuns' = netRuns + 1
  /\ netPc' = "build"
  /\ interactions' = EmptyNetwork
  /\ buildThrew' = FALSE
  /\ UNCHANGED <<netSnapshots, analyticsCache, analytics, netThrown>>
  /\ UNCHANGED notSnapshot

\* const interactions = await this.buildInteractionNetwork(): the build has
\* a try/catch of its own; when a query of it rejects, the catch logs and
\* returns the empty network, and analyze() goes on with that value.
AnalyzeBuild ==
  /\ netPc = "build"
  /\ \/ /\ interactions' \in Networks
        /\ buildThrew' = FALSE
     \/ /\ interactions' = EmptyNetwork
        /\ buildThrew' = TRUE
  /\ netPc' = "communities"
  /\ UNCHANGED <<netRuns, netSnapshots, analyticsCache, analytics, netThrown>>
  /\ UNCHANGED notSnapshot

\* The next four steps read interactions and return arrays; the three that
\* run queries or loops in a try block catch their own errors, and
\* calculateInfluenceMetrics is a loop over nodes that an empty array skips.
AnalyzeCommunities ==
  /\ netPc = "communities"
  /\ netPc' = "influence"
  /\ UNCHANGED <<netRuns, interactions, buildThrew, netSnapshots, analyticsCache,
                 analytics, netThrown>>
  /\ UNCHANGED notSnapshot

AnalyzeInfluence ==
  /\ netPc = "influence"
  /\ netPc' = "coordination"
  /\ UNCHANGED <<netRuns, interactions, buildThrew, netSnapshots, analyticsCache,
                 analytics, netThrown>>
  /\ UNCHANGED notSnapshot

AnalyzeCoordination ==
  /\ netPc = "coordination"
  /\ netPc' = "flow"
  /\ UNCHANGED <<netRuns, interactions, buildThrew, netSnapshots, analyticsCache,
                 analytics, netThrown>>
  /\ UNCHANGED notSnapshot

AnalyzeInformationFlow ==
  /\ netPc = "flow"
  /\ netPc' = "store"
  /\ UNCHANGED <<netRuns, interactions, buildThrew, netSnapshots, analyticsCache,
                 analytics, netThrown>>
  /\ UNCHANGED notSnapshot

\* The row storeNetworkAnalytics inserts. run and buildThrew are history
\* fields: the stored JSON holds neither.
SnapshotRow ==
  [snapshot_type |-> "network_analysis",
   network_size |-> interactions.nodes,
   total_connections |-> interactions.edges,
   run |-> netRuns,
   buildThrew |-> buildThrew]

\* INSERT INTO analytics_snapshots (snapshot_type, data)
\* VALUES ('network_analysis', $1): a plain insert, then analyze() logs
\* its completion and returns.
StoreNetworkAnalytics ==
  /\ netPc = "store"
  /\ netSnapshots' = Append(netSnapshots, SnapshotRow)
  /\ netPc' = "idle"
  /\ UNCHANGED <<netRuns, interactions, buildThrew, analyticsCache, analytics, netThrown>>
  /\ UNCHANGED notSnapshot

\* The insert rejects: the catch of analyze() logs the error and the call
\* returns normally.
AnalyzeCatch ==
  /\ netPc = "store"
  /\ netPc' = "idle"
  /\ netThrown' = FALSE
  /\ UNCHANGED <<netRuns, interactions, buildThrew, netSnapshots, analyticsCache,
                 analytics>>
  /\ UNCHANGED notSnapshot

\* GET /api/v1/analytics?type=network_analysis&limit=1
limit == 1

\* SELECT ... WHERE snapshot_type = $1 ORDER BY created_at DESC LIMIT n
LatestSnapshots ==
  [i \in 1..Min(limit, Len(netSnapshots)) |-> netSnapshots[Len(netSnapshots) + 1 - i]]

\* The endpoint answers from the cache when the key is there, else it runs
\* the query and caches what it got for 15 minutes.
GetAnalytics ==
  /\ IF analyticsCache.hit
       THEN /\ analytics' = analyticsCache.rows
            /\ UNCHANGED analyticsCache
       ELSE /\ analytics' = LatestSnapshots
            /\ analyticsCache' = [hit |-> TRUE, rows |-> LatestSnapshots]
  /\ UNCHANGED <<netPc, netRuns, interactions, buildThrew, netSnapshots, netThrown>>
  /\ UNCHANGED notSnapshot

\* the cache entry reaches its time to live of 900 seconds
CacheExpires ==
  /\ analyticsCache.hit
  /\ analyticsCache' = NoCache
  /\ UNCHANGED <<netPc, netRuns, interactions, buildThrew, netSnapshots, analytics,
                 netThrown>>
  /\ UNCHANGED notSnapshot

NextSnapshot ==
  \/ Analyze
  \/ AnalyzeBuild
  \/ AnalyzeCommunities
  \/ AnalyzeInfluence
  \/ AnalyzeCoordination
  \/ AnalyzeInformationFlow
  \/ StoreNetworkAnalytics
  \/ AnalyzeCatch
  \/ GetAnalytics
  \/ CacheExpires

\* C17: every network_analysis snapshot the analytics endpoint serves, and
\* every one in the table, was written by a run whose graph build did not
\* fail.
C17_SnapshotsFromSuccessfulRuns ==
  /\ \A i \in DOMAIN analytics : ~analytics[i].buildThrew
  /\ \A i \in DOMAIN netSnapshots : ~netSnapshots[i].buildThrew

\* ------------------------------------------------------------------------
\* ThreatIntelligenceAnalyzer.storeThreats and
\* SecurityAnalyzer.storeSecurityAlerts, called twice on unchanged input
\* ------------------------------------------------------------------------
MaxStoreCalls == 2
MaxStoreAlerts == 2
Writers == {"threat", "security"}

\* what analyze() passes on: correlated threats with risk_score > 0.6
ThreatInputs == [threat_type : {"agent_behavior", "supply_chain"},
                 threat_subtype : {"credential_harvesting"},
                 risk_score : {700, 900}]
\* what analyzeSkill returns in analysis.alerts for the skill
SkillAlertInputs == [type : {"credential_theft", "malicious_code"},
                     severity : {"high", "critical"}]
SkillName == "weather"

InitStore ==
  /\ alertInput = <<>>
  /\ skillAlerts = <<>>
  /\ storeCalls = [w \in Writers |-> 0]
  /\ storedThreats = <<>>
  /\ storedAlerts = <<>>
  /\ storeCompleted = [w \in Writers |-> 0]
  /\ afterFirst = [w \in Writers |-> <<>>]

InitStoreData ==
  /\ alertInput \in SeqUpTo(ThreatInputs, MaxStoreAlerts)
  /\ skillAlerts \in SeqUpTo(SkillAlertInputs, MaxStoreAlerts)
  /\ storeCalls = [w \in Writers |-> 0]
  /\ storedThreats = <<>>
  /\ storedAlerts = <<>>
  /\ storeCompleted = [w \in Writers |-> 0]
  /\ afterFirst = [w \in Writers |-> <<>>]

\* id SERIAL PRIMARY KEY: the insert takes the next id; no other column of
\* either table is unique.
InsertAll(table, rows) ==
  table \o [i \in 1..Len(rows) |-> [id |-> Len(table) + i, row |-> rows[i]]]

\* storeThreats(threats) with the table in place: one
\* INSERT INTO threat_intelligence (...) VALUES (...) per threat, then
\* CREATE TABLE IF NOT EXISTS. The first k statements succeed; if one
\* fails the call throws and the rows inserted before it stay.
StoreThreatsAgain ==
  /\ storeCalls["threat"] < MaxStoreCalls
  /\ storeCalls' = [storeCalls EXCEPT !["threat"] = @ + 1]
  /\ \E k \in 0..Len(alertInput) :
       /\ storedThreats' = InsertAll(storedThreats, SubSeq(alertInput, 1, k))
       /\ IF k = Len(alertInput)
            THEN /\ storeCompleted' = [storeCompleted EXCEPT !["threat"] = @ + 1]
                 /\ afterFirst' = IF storeCompleted["threat"] = 0
                                    THEN [afterFirst EXCEPT !["threat"] = storedThreats']
                                    ELSE afterFirst
            ELSE UNCHANGED <<storeCompleted, afterFirst>>
  /\ UNCHANGED <<alertInput, skillAlerts, storedAlerts>>
  /\ UNCHANGED notStore

\* the row of one alert: type, severity and the title built from them
SecurityAlertRow(alert) ==
  [type |-> alert.type, severity |-> alert.severity,
   title |-> <<alert.severity, SkillName, alert.type>>]

\* storeSecurityAlerts(skill, alerts): one
\* INSERT INTO security_alerts (...) VALUES (...) RETURNING * per alert.
\* A failing statement throws to the per-skill catch of the scan.
StoreSecurityAlerts ==
  /\ storeCalls["security"] < MaxStoreCalls
  /\ Len(skillAlerts) > 0
  /\ storeCalls' = [storeCalls EXCEPT !["security"] = @ + 1]
  /\ \E k \in 0..Len(skillAlerts) :
       /\ storedAlerts' =
            InsertAll(storedAlerts,
                      [i \in 1..k |-> SecurityAlertRow(skillAlerts[i])])
       /\ IF k = Len(skillAlerts)
            THEN /\ storeCompleted' = [storeCompleted EXCEPT !["security"] = @ + 1]
                 /\ afterFirst' = IF storeCompleted["security"] = 0
                                    THEN [afterFirst EXCEPT !["security"] = storedAlerts']
                                    ELSE afterFirst
            ELSE UNCHANGED <<storeCompleted, afterFirst>>
  /\ UNCHANGED <<alertInput, skillAlerts, storedThreats>>
  /\ UNCHANGED notStore

NextStore ==
  \/ StoreThreatsAgain
  \/ StoreSecurityAlerts

\* the rows of a table without their surrogate ids
Contents(table) == [i \in DOMAIN table |-> table[i].row]

\* C19: when a writer has been called twice on the same input and both
\* calls returned, its table holds the rows it held after the first call.
C19_SecondStoreAddsNothing ==
  /\ (storeCalls["threat"] = 2 /\ storeCompleted["threat"] = 2) =>
       Contents(storedThreats) = Contents(afterFirst["threat"])
  /\ (storeCalls["security"] = 2 /\ storeCompleted["security"] = 2) =>
       Contents(storedAlerts) = Contents(afterFirst["security"])

\* ------------------------------------------------------------------------
\* startAnalyzers / stopAnalyzers and the cron jobs of the five components
\* ------------------------------------------------------------------------
\* security: SecurityAnalyzer.scanClawdHubSkills (the scanner-fed pipeline)
\* threat:   ThreatIntelligenceAnalyzer.analyze
\* network:  NetworkAnalyzer.analyze
\* identity: IdentityResolver.resolveIdentities
\* reputation: ReputationEngine.calculateReputation
EngineComponents == {"security", "threat", "network", "identity", "reputation"}
MaxInvocations == 3
MaxInFlight == 2

InitStartup ==
  /\ saPc = "security"
  /\ analyzers = <<>>
  /\ scheduled = [c \in EngineComponents |-> FALSE]
  /\ invocations = [c \in EngineComponents |-> 0]
  /\ inFlight = [c \in EngineComponents |-> 0]

\* const a = new X(); await a.start(); analyzers.push(a);
\* start() awaits one run of the entry point, which has returned when
\* start() goes on, then creates the CronJob with its start argument true.
StartAndPush(c, next) ==
  /\ invocations' = [invocations EXCEPT ![c] = Min(MaxInvocations, @ + 1)]
  /\ scheduled' = [scheduled EXCEPT ![c] = TRUE]
  /\ analyzers' = Append(analyzers, c)
  /\ saPc' = next
  /\ UNCHANGED inFlight

\* const a = new X(); analyzers.push(a);
PushOnly(c, next) ==
  /\ analyzers' = Append(analyzers, c)
  /\ saPc' = next
  /\ UNCHANGED <<scheduled, invocations, inFlight>>

StartSecurityAnalyzer ==
  /\ saPc = "security"
  /\ StartAndPush("security", "threat")
  /\ UNCHANGED notStartup

StartThreatIntelAnalyzer ==
  /\ saPc = "threat"
  /\ StartAndPush("threat", "network")
  /\ UNCHANGED notStartup

StartNetworkAnalyzer ==
  /\ saPc = "network"
  /\ StartAndPush("network", "identity")
  /\ UNCHANGED notStartup

\* The resolver and the engine are constructed and pushed; neither class
\* has a start method or a CronJob, and nothing calls their entry points.
CreateIdentityResolver ==
  /\ saPc = "identity"
  /\ PushOnly("identity", "reputation")
  /\ UNCHANGED notStartup

CreateReputationEngine ==
  /\ saPc = "reputation"
  /\ PushOnly("reputation", "done")
  /\ UNCHANGED notStartup

\* A live CronJob reaches its time: the callback calls the entry point,
\* whether or not an earlier run is still in flight. invocations counts up
\* to MaxInvocations and stays there.
CronFire(c) ==
  /\ scheduled[c]
  /\ inFlight[c] < MaxInFlight
  /\ invocations' = [invocations EXCEPT ![c] = Min(MaxInvocations, @ + 1)]
  /\ inFlight' = [inFlight EXCEPT ![c] = @ + 1]
  /\ UNCHANGED <<saPc, analyzers, scheduled>>
  /\ UNCHANGED notStartup

\* A run started by a cron tick returns.
CronRunReturns(c) ==
  /\ inFlight[c] > 0
  /\ inFlight' = [inFlight EXCEPT ![c] = @ - 1]
  /\ UNCHANGED <<saPc, analyzers, scheduled, invocations>>
  /\ UNCHANGED notStartup

\* stopAnalyzers: await analyzer.stop() for each element, errors caught one
\* by one (the resolver and the engine have no stop method), then the array
\* is emptied.
StopAnalyzers ==
  /\ saPc = "done"
  /\ scheduled' = [c \in EngineComponents |-> FALSE]
  /\ analyzers' = <<>>
  /\ saPc' = "stopped"
  /\ UNCHANGED <<invocations, inFlight>>
  /\ UNCHANGED notStartup

NextStartup ==
  \/ StartSecurityAnalyzer
  \/ StartThreatIntelAnalyzer
  \/ StartNetworkAnalyzer
  \/ CreateIdentityResolver
  \/ CreateReputationEngine
  \/ \E c \in EngineComponents : CronFire(c)
  \/ \E c \in EngineComponents : CronRunReturns(c)
  \/ StopAnalyzers

\* startAnalyzers runs to its end once called, a live CronJob fires
\* whenever its time comes, and a run that was started returns.
FairStartup ==
  /\ WF_vars(StartSecurityAnalyzer)
  /\ WF_vars(StartThreatIntelAnalyzer)
  /\ WF_vars(StartNetworkAnalyzer)
  /\ WF_vars(CreateIdentityResolver)
  /\ WF_vars(CreateReputationEngine)
  /\ \A c \in EngineComponents : WF_vars(CronFire(c)) /\ WF_vars(CronRunReturns(c))

\* C20: once startAnalyzers has returned, every one of the five components
\* eventually has executed a run of its entry point, unless stopAnalyzers
\* is called first.
C20_EveryComponentEventuallyRuns ==
  (saPc = "done") ~>
    (saPc = "stopped" \/ \A c \in EngineComponents : invocations[c] > 0)

\* ------------------------------------------------------------------------
\* ThreatIntelligenceAnalyzer.storeThreats and
\* ReputationEngine.calculateSecurityScore over one agent
\* ------------------------------------------------------------------------
MaxAlerts == 3
MaxAgentSignals == 2
Severities == {"critical", "high", "medium", "low"}

NoAlerts == [s \in Severities |-> 0]
AlertTotal(ta) == ta["critical"] + ta["high"] + ta["medium"] + ta["low"]

\* history fields alerts and signals: the rows of threat_alerts and of
\* threat_intelligence about the agent when the statement ran
NoRecord == [present |-> FALSE, score |-> 0, alerts |-> NoAlerts, signals |-> 0]

InitSecurity ==
  /\ agentAlerts = NoAlerts
  /\ agentSignals = <<>>
  /\ securityRecord = NoRecord
  /\ previousRecord = NoRecord

\* A row about the agent is inserted into threat_alerts.
ThreatAlertInserted ==
  /\ AlertTotal(agentAlerts) < MaxAlerts
  /\ \E s \in Severities : agentAlerts' = [agentAlerts EXCEPT ![s] = @ + 1]
  /\ UNCHANGED <<agentSignals, securityRecord, previousRecord>>
  /\ UNCHANGED notSecurity

\* A ThreatIntelligenceAnalyzer run completes storeThreats with signals
\* whose metadata names the agent: INSERT INTO threat_intelligence.
CorrelatorStoresThreats ==
  /\ \E signals \in SeqUpTo(ThreatInputs, MaxAgentSignals - Len(agentSignals)) :
       /\ Len(signals) > 0
       /\ agentSignals' = InsertAll(agentSignals, signals)
  /\ UNCHANGED <<agentAlerts, securityRecord, previousRecord>>
  /\ UNCHANGED notSecurity

\* calculateSecurityScore: FROM agents a LEFT JOIN threat_alerts ta, grouped
\* by agent; the statement reads no other table.
SecurityScoreOf(ta) ==
  Clamp(SecurityPoints([alerts |-> [critical |-> ta["critical"], high |-> ta["high"],
                                    medium |-> ta["medium"], low |-> ta["low"]]])
        * ScoreUnit)

CalculateSecurityScoreOfAgent ==
  /\ securityRecord' = [present |-> TRUE, score |-> SecurityScoreOf(agentAlerts),
                        alerts |-> agentAlerts, signals |-> Len(agentSignals)]
  /\ previousRecord' = securityRecord
  /\ UNCHANGED <<agentAlerts, agentSignals>>
  /\ UNCHANGED notSecurity

NextSecurity ==
  \/ ThreatAlertInserted
  \/ CorrelatorStoresThreats
  \/ CalculateSecurityScoreOfAgent

\* C22: a security_record row computed after a correlator run stored a
\* signal about the agent is below 100.
C22_CorrelatorSignalLowersSecurityRecord ==
  (securityRecord.present /\ securityRecord.signals > 0) =>
    securityRecord.score < 100 * ScoreUnit

\* C30: a security_record row computed from the alerts of the row it
\* replaces and more is not above the row it replaces.
C30_MoreAlertsNeverRaiseScore ==
  (/\ securityRecord.present /\ previousRecord.present
   /\ \A s \in Severities : previousRecord.alerts[s] <= securityRecord.alerts[s]) =>
    securityRecord.score <= previousRecord.score

\* ------------------------------------------------------------------------
\* IdentityResolver.linkByFollowingRelationships: the statement over two
\* agents on different platforms and the accounts they follow
\* ------------------------------------------------------------------------
\* agents 1 and 2 are on different platforms and have no link yet
FollowAgents == {1, 2}
MaxFollowed == 4
\* target_agent_id values of the 'following' rows
Followed == 1..MaxFollowed

InitFollow ==
  /\ follows = [a \in FollowAgents |-> {}]
  /\ followLinks = {}
  /\ followPc = "input"

\* potential_links: agents a1 JOIN agents a2 ON a1.id != a2.id JOIN
\* agent_relationships ar ON ar.source_agent_id = a1.id; the rows of a group
\* (a1, a2) are the 'following' rows of a1, so
\* COUNT(DISTINCT ar.target_agent_id) is the number of agents a1 follows.
MutualFollows(a1, a2) == Cardinality(follows[a1])

\* HAVING COUNT(...) >= 3, then
\* INSERT ... SELECT agent1_id, agent2_id, 'following_pattern',
\*                   LEAST(0.85, mutual_follows::float / 10)
PotentialLinks ==
  {[primary_agent_id |-> a1, linked_agent_id |-> a2, link_type |-> "following_pattern",
    confidence |-> Min(255, MutualFollows(a1, a2) * 30)] :
     <<a1, a2>> \in {p \in FollowAgents \X FollowAgents :
                      p[1] # p[2] /\ MutualFollows(p[1], p[2]) >= 3}}

LinkByFollowingStatement ==
  /\ followPc = "input"
  /\ followLinks' = PotentialLinks
  /\ followPc' = "linked"
  /\ UNCHANGED follows
  /\ UNCHANGED notFollow

\* A 'following' row is added to agent_relationships before the phase runs.
FollowAdded ==
  /\ followPc = "input"
  /\ \E a \in FollowAgents, t \in Followed :
       /\ t \notin follows[a]
       /\ follows' = [follows EXCEPT ![a] = @ \cup {t}]
  /\ UNCHANGED <<followLinks, followPc>>
  /\ UNCHANGED notFollow

NextFollow ==
  \/ FollowAdded
  \/ LinkByFollowingStatement

\* the followees two agents have in common
SharedFollowees(a, b) == follows[a] \cap follows[b]

\* C24: a following_pattern row joins two agents only if they share at
\* least 3 followees, and its confidence is min(0.85, shared/10).
C24_LinkNeedsSharedFollowees ==
  \A r \in followLinks :
    LET shared == Cardinality(SharedFollowees(r.primary_agent_id, r.linked_agent_id)) IN
    /\ shared >= 3
    /\ r.confidence = Min(255, shared * 30)

\* ------------------------------------------------------------------------
\* NetworkAnalyzer.addTemporalInteractionEdges over one pair of agents
\* ------------------------------------------------------------------------
TemporalAgents == {1, 2}
MaxHours == 3
\* values of EXTRACT(HOUR FROM created_at)
Hours == 1..MaxHours
PostCounts == {0, 2, 3}

NoEdge == [present |-> FALSE, weight |-> 0, overlapping_hours |-> <<>>]

InitTemporal ==
  /\ hourPosts = [a \in TemporalAgents |-> [h \in Hours |-> 0]]
  /\ temporalNodes = {}
  /\ temporalEdge = NoEdge
  /\ temporalPc = "input"

InitTemporalData ==
  /\ hourPosts \in [TemporalAgents -> [Hours -> PostCounts]]
  /\ temporalNodes \in SUBSET TemporalAgents
  /\ temporalEdge = NoEdge
  /\ temporalPc = "input"

\* Mutant of ActiveInHour: two posts in the hour are enough.
ActiveInHourInclusive(count) == count >= 2

\* GROUP BY agent_id, EXTRACT(HOUR FROM created_at) HAVING COUNT(*) > 2
ActiveInHour(count) == count > 2

\* hourlyActivity.get(hour): the agents with a row for the hour
AgentsActiveAt(h) == {a \in TemporalAgents : ActiveInHour(hourPosts[a][h])}

\* the hours that have a row, which are the keys of hourlyActivity
ActiveHours == {h \in Hours : AgentsActiveAt(h) # {}}

\* One iteration of the loop over hourlyActivity for the pair: a new edge
\* of weight 0.4 when the map has none, else the hour is pushed and the
\* weight grows by 0.2.
TemporalStep(edge, h) ==
  IF AgentsActiveAt(h) = TemporalAgents /\ temporalNodes = TemporalAgents
    THEN IF ~edge.present
           THEN [present |-> TRUE, weight |-> 400, overlapping_hours |-> <<h>>]
           ELSE [present |-> TRUE, weight |-> edge.weight + 200,
                 overlapping_hours |-> Append(edge.overlapping_hours, h)]
    ELSE edge

RECURSIVE TemporalLoop(_, _)
TemporalLoop(edge, hours) ==
  IF hours = <<>> THEN edge
  ELSE TemporalLoop(TemporalStep(edge, Head(hours)), Tail(hours))

\* The Map keeps the hours in the order the rows came back, which the
\* statement does not fix.
AddTemporalInteractionEdges ==
  /\ temporalPc = "input"
  /\ \E order \in Orders(ActiveHours) : temporalEdge' = TemporalLoop(NoEdge, order)
  /\ temporalPc' = "added"
  /\ UNCHANGED <<hourPosts, temporalNodes>>
  /\ UNCHANGED notTemporal

NextTemporal == AddTemporalInteractionEdges

\* the hours of the day in which both agents have more than 2 posts
OverlappingHours == {h \in Hours : \A a \in TemporalAgents : hourPosts[a][h] > 2}

\* C25 as stated: a temporal edge exists only when the two agents overlap
\* in more than 2 hourly buckets, and its weight is 0.4 + 0.2 * (k - 1) for
\* the k hours recorded on it.
C25_EdgeNeedsThreeOverlaps ==
  temporalEdge.present =>
    /\ Cardinality(OverlappingHours) > 2
    /\ temporalEdge.weight = 400 + 200 * (Len(temporalEdge.overlapping_hours) - 1)

\* C25 amended: the pair has a temporal edge exactly when both agents are
\* nodes and there is at least one hour of the day in which each has more
\* than 2 posts; the edge records exactly those hours, each once, and its
\* weight is 0.4 + 0.2 * (k - 1) for the k hours recorded.
C25_EdgePerOverlappingHour ==
  temporalPc = "added" =>
    /\ temporalEdge.present <=>
         (OverlappingHours # {} /\ temporalNodes = TemporalAgents)
    /\ temporalEdge.present =>
         /\ Range(temporalEdge.overlapping_hours) = OverlappingHours
         /\ Len(temporalEdge.overlapping_hours) = Cardinality(OverlappingHours)
         /\ temporalEdge.weight = 400 + 200 * (Len(temporalEdge.overlapping_hours) - 1)

\* An edge over two overlapping hours, of weight 0.6.
C25_Witness ==
  /\ temporalEdge.present
  /\ Len(temporalEdge.overlapping_hours) = 2
  /\ temporalEdge.weight = 600

\* ------------------------------------------------------------------------
\* start() and stop() called on one analyzer instance in any interleaving
\* ------------------------------------------------------------------------
MaxPendingStarts == 2
MaxLiveJobs == 2

\* start() called at any time, also while an earlier start() still awaits
\* its initial run: the guard reads isRunning, which that start() has not
\* set yet. A call that finds isRunning set warns and returns.
StartAnyTime(c) ==
  /\ StartGuard(c)
  /\ initialRuns[c] < MaxPendingStarts
  /\ liveJobs[c] + initialRuns[c] < MaxLiveJobs
  /\ initialRuns' = [initialRuns EXCEPT ![c] = @ + 1]
  /\ UNCHANGED <<isRunning, analysisJob, liveJobs, cronRuns, startCalled, triggers>>
  /\ UNCHANGED notSched

NextLifecycle ==
  \E c \in Components :
    \/ StartAnyTime(c)
    \/ InitialRunEnd(c)
    \/ CronTick(c)
    \/ CronRunEnd(c)
    \/ Stop(c)

\* C27: an instance never has two live cron jobs, and when no start() is
\* pending and isRunning is false it has none.
C27_AtMostOneJobAndNoneWhenStopped ==
  \A c \in Components :
    /\ liveJobs[c] <= 1
    /\ (initialRuns[c] = 0 /\ ~isRunning[c]) => liveJobs[c] = 0

\* ------------------------------------------------------------------------
\* NetworkAnalyzer.findAmplificationNetworks
\* ------------------------------------------------------------------------
\* Bound on the edges of the interaction graph.
MaxAmpEdges == 6
AmpNodes == 1..(MaxAmpEdges + 2)
\* edge.weight in 1/10; 4 is the weight a new interaction edge is seeded with
AmpWeights == {0, 4}

InitAmpl ==
  /\ ampEdges = <<>>
  /\ ampPatterns = {}
  /\ ampPc = "input"

\* edges.filter(edge => edge.source === node.id || edge.target === node.id)
ConnectedEdges(edges, node) ==
  LET incident(e) == e.source = node \/ e.target = node
  IN SelectSeq(edges, incident)

\* Mutant of HighWeight: an edge above the average itself counts as high.
HighWeightAboveAverage(e, sum, n) == e.weight * n > sum

\* edge.weight > avgWeight * 1.5, with avgWeight = sum / n
HighWeight(e, sum, n) == e.weight * n * 2 > sum * 3

\* connectedEdges.filter(edge => edge.weight > avgWeight * 1.5)
HighWeightConnections(connected) ==
  LET sum == SumWeights(connected)
      n == Len(connected)
      high(e) == HighWeight(e, sum, n)
  IN SelectSeq(connected, high)

\* The loop over nodes: a pattern for every node with more than 5 connected
\* edges of which at least 70% are high-weight connections.
FindAmplificationNetworksResult(edges) ==
  {[type |-> "amplification_network", center_agent |-> node,
    total_connections |-> Len(ConnectedEdges(edges, node)),
    high_weight_connections |->
      Len(HighWeightConnections(ConnectedEdges(edges, node)))] :
   node \in {n \in AmpNodes :
              LET connected == ConnectedEdges(edges, n) IN
                /\ Len(connected) > 5
                /\ 10 * Len(HighWeightConnections(connected))
                     >= 7 * Len(connected)}}

\* The graph handed to the analysis gets one more edge: the k-th edge joins
\* node 1 and node k+1 in either direction, or joins nodes k+1 and k+2.
AmpEdgeAdded ==
  /\ ampPc = "input"
  /\ Len(ampEdges) < MaxAmpEdges
  /\ \E w \in AmpWeights :
       LET k == Len(ampEdges) + 1 IN
         \E ends \in {<<1, k + 1>>, <<k + 1, 1>>, <<k + 1, k + 2>>} :
           ampEdges' = Append(ampEdges,
                         [source |-> ends[1], target |-> ends[2], weight |-> w])
  /\ UNCHANGED <<ampPatterns, ampPc>>
  /\ UNCHANGED notAmpl

FindAmplificationNetworks ==
  /\ ampPc = "input"
  /\ ampPatterns' = FindAmplificationNetworksResult(ampEdges)
  /\ ampPc' = "done"
  /\ UNCHANGED ampEdges
  /\ UNCHANGED notAmpl

NextAmpl == AmpEdgeAdded \/ FindAmplificationNetworks

\* C29: whatever the graph (edge weights are non-negative), the call reports
\* no amplification_network pattern.
C29_NoAmplificationPattern ==
  ampPc = "done" => ampPatterns = {}

\* C29 witness: the call has returned nothing for a graph whose node 1 has
\* more than 5 connected edges, some of them high-weight connections.
C29_Witness ==
  /\ ampPc = "done"
  /\ ampPatterns = {}
  /\ Len(ConnectedEdges(ampEdges, 1)) > 5
  /\ Len(HighWeightConnections(ConnectedEdges(ampEdges, 1))) > 0

\* ------------------------------------------------------------------------
\* Specifications: each runs one component and holds the others idle
\* ------------------------------------------------------------------------
InitSpecCommunity == InitSched /\ InitThreat /\ tableExists = FALSE /\ InitCommunity
                     /\ InitBuild /\ InitProfiles /\ InitResolve /\ InitRep /\ InitStrings /\ InitIngest /\ InitSnapshot /\ InitStore /\ InitStartup /\ InitSecurity /\ InitFollow /\ InitTemporal /\ InitAmpl
SpecCommunity == InitSpecCommunity /\ [][NextCommunity]_vars
InitSpecBuild == InitSched /\ InitThreat /\ tableExists = FALSE /\ InitCommunity
                 /\ InitBuildData /\ InitProfiles /\ InitResolve /\ InitRep /\ InitStrings /\ InitIngest /\ InitSnapshot /\ InitStore /\ InitStartup /\ InitSecurity /\ InitFollow /\ InitTemporal /\ InitAmpl
SpecBuild == InitSpecBuild /\ [][NextBuild]_vars
InitSpecProfiles == InitSched /\ InitThreat /\ tableExists = FALSE /\ InitCommunity
                    /\ InitBuild /\ InitProfiles /\ InitResolve /\ InitRep /\ InitStrings /\ InitIngest /\ InitSnapshot /\ InitStore /\ InitStartup /\ InitSecurity /\ InitFollow /\ InitTemporal /\ InitAmpl
SpecProfiles == InitSpecProfiles /\ [][NextProfiles]_vars
InitSpecResolve == InitSched /\ InitThreat /\ tableExists = FALSE /\ InitCommunity
                   /\ InitBuild /\ InitProfiles /\ InitResolveData /\ InitRep /\ InitStrings /\ InitIngest /\ InitSnapshot /\ InitStore /\ InitStartup /\ InitSecurity /\ InitFollow /\ InitTemporal /\ InitAmpl
SpecResolve == InitSpecResolve /\ [][NextResolve]_vars
InitSpecRep == InitSched /\ InitThreat /\ tableExists = FALSE /\ InitCommunity
               /\ InitBuild /\ InitProfiles /\ InitResolve /\ InitRepData /\ InitStrings /\ InitIngest /\ InitSnapshot /\ InitStore /\ InitStartup /\ InitSecurity /\ InitFollow /\ InitTemporal /\ InitAmpl
SpecRep == InitSpecRep /\ [][NextRep]_vars
InitSpecStrings == InitSched /\ InitThreat /\ tableExists = FALSE /\ InitCommunity
                   /\ InitBuild /\ InitProfiles /\ InitResolve /\ InitRep
                   /\ InitStringsData /\ InitIngest /\ InitSnapshot /\ InitStore /\ InitStartup /\ InitSecurity /\ InitFollow /\ InitTemporal /\ InitAmpl
SpecStrings == InitSpecStrings /\ [][NextStrings]_vars
InitSpecIngest == InitSched /\ InitThreat /\ tableExists = FALSE /\ InitCommunity
                  /\ InitBuild /\ InitProfiles /\ InitResolve /\ InitRep
                  /\ InitStrings /\ InitIngestData /\ InitSnapshot /\ InitStore /\ InitStartup /\ InitSecurity /\ InitFollow /\ InitTemporal /\ InitAmpl
SpecIngest == InitSpecIngest /\ [][NextIngest]_vars
InitSpecSnapshot == InitSched /\ InitThreat /\ tableExists = FALSE /\ InitCommunity
                    /\ InitBuild /\ InitProfiles /\ InitResolve /\ InitRep
                    /\ InitStrings /\ InitIngest /\ InitSnapshot /\ InitStore /\ InitStartup /\ InitSecurity /\ InitFollow /\ InitTemporal /\ InitAmpl
SpecSnapshot == InitSpecSnapshot /\ [][NextSnapshot]_vars
InitSpecStore == InitSched /\ InitThreat /\ tableExists = FALSE /\ InitCommunity
                 /\ InitBuild /\ InitProfiles /\ InitResolve /\ InitRep
                 /\ InitStrings /\ InitIngest /\ InitSnapshot /\ InitStoreData /\ InitStartup /\ InitSecurity /\ InitFollow /\ InitTemporal /\ InitAmpl
SpecStore == InitSpecStore /\ [][NextStore]_vars
InitSpecStartup == InitSched /\ InitThreat /\ tableExists = FALSE /\ InitCommunity
                   /\ InitBuild /\ InitProfiles /\ InitResolve /\ InitRep
                   /\ InitStrings /\ InitIngest /\ InitSnapshot /\ InitStore
                   /\ InitStartup /\ InitSecurity /\ InitFollow /\ InitTemporal /\ InitAmpl
SpecStartup == InitSpecStartup /\ [][NextStartup]_vars /\ FairStartup
InitSpecSecurity == InitSched /\ InitThreat /\ tableExists = FALSE /\ InitCommunity
                    /\ InitBuild /\ InitProfiles /\ InitResolve /\ InitRep
                    /\ InitStrings /\ InitIngest /\ InitSnapshot /\ InitStore
                    /\ InitStartup /\ InitSecurity /\ InitFollow /\ InitTemporal /\ InitAmpl
SpecSecurity == InitSpecSecurity /\ [][NextSecurity]_vars
InitSpecFollow == InitSched /\ InitThreat /\ tableExists = FALSE /\ InitCommunity
                  /\ InitBuild /\ InitProfiles /\ InitResolve /\ InitRep
                  /\ InitStrings /\ InitIngest /\ InitSnapshot /\ InitStore
                  /\ InitStartup /\ InitSecurity /\ InitFollow /\ InitTemporal /\ InitAmpl
SpecFollow == InitSpecFollow /\ [][NextFollow]_vars
InitSpecTemporal == InitSched /\ InitThreat /\ tableExists = FALSE /\ InitCommunity
                    /\ InitBuild /\ InitProfiles /\ InitResolve /\ InitRep
                    /\ InitStrings /\ InitIngest /\ InitSnapshot /\ InitStore
                    /\ InitStartup /\ InitSecurity /\ InitFollow /\ InitTemporalData /\ InitAmpl
SpecTemporal == InitSpecTemporal /\ [][NextTemporal]_vars
InitSpecAmpl == InitSched /\ InitThreat /\ tableExists = FALSE /\ InitCommunity
                /\ InitBuild /\ InitProfiles /\ InitResolve /\ InitRep
                /\ InitStrings /\ InitIngest /\ InitSnapshot /\ InitStore
                /\ InitStartup /\ InitSecurity /\ InitFollow /\ InitTemporal /\ InitAmpl
SpecAmpl == InitSpecAmpl /\ [][NextAmpl]_vars
InitSpecSched == InitSched /\ InitThreat /\ tableExists = FALSE /\ InitCommunity /\ InitBuild /\ InitProfiles /\ InitResolve /\ InitRep /\ InitStrings /\ InitIngest /\ InitSnapshot /\ InitStore /\ InitStartup /\ InitSecurity /\ InitFollow /\ InitTemporal /\ InitAmpl
SpecSched == InitSpecSched /\ [][NextSched]_vars
SpecLifecycle == InitSpecSched /\ [][NextLifecycle]_vars
InitSpecThreat == InitSched /\ InitThreatRun /\ InitCommunity /\ InitBuild /\ InitProfiles /\ InitResolve /\ InitRep /\ InitStrings /\ InitIngest /\ InitSnapshot /\ InitStore /\ InitStartup /\ InitSecurity /\ InitFollow /\ InitTemporal /\ InitAmpl
SpecThreat == InitSpecThreat /\ [][NextThreat]_vars

====
